---- MODULE Spec2Model ----
(***************************************************************************)
(* Walk-forward validation engine of chkomi/lotto.                         *)
(*                                                                         *)
(*   WalkForwardBacktester (src/js/main.js 4206-4559): generateFolds, run, *)
(*     evaluateFold, countHits, aggregateMetrics                           *)
(*   calculateMetrics (src/js/main.js 3873-3962)                           *)
(*   Backtester.run / LottoAnalyzer.analyze (src/js/backtest/optimizer.js) *)
(*   AdvancedBacktester.runProbabilityBacktest (src/unnamed/part_005) and  *)
(*     ProbabilityScorer.calculateAllScores, analyzeCalibration            *)
(*     (src/unnamed/part_000)                                              *)
(*   AdvancedBacktester.calculateRandomHit3Plus, hypergeometricPMF and     *)
(*     combination (src/unnamed/part_005 190-223)                          *)
(*   StrategyOptimizer (src/js/backtest/optimizer.js 27-290)               *)
(*                                                                         *)
(* Array indices are the source's 0-based indices; a JavaScript array a is *)
(* the sequence whose element a[i] is seq[i + 1].  A quotient x / y of the *)
(* source is kept as the exact fraction [num |-> x, den |-> y].            *)
(***************************************************************************)
EXTENDS Integers, Sequences, FiniteSets, TLC

VARIABLES
    data,         \* this.data: the draw records, sorted by round
    config,       \* this.config
    pc,           \* position of the running operation
    startIdx,     \* generateFolds: let startIdx
    folds,        \* generateFolds: const folds (in run: its return value)
    foldIdx,      \* run: idx of folds.forEach
    predictions,  \* run: what strategyFunction returned or threw for folds[idx]
    calls,        \* every invocation of strategyFunction so far, with its arguments
    foldResults,  \* run: const foldResults
    aggregate,    \* run: const aggregateMetrics
    startRound,   \* Backtester.run / runProbabilityBacktest: startRound
    endRound,     \* Backtester.run / runProbabilityBacktest: endRound
    round,        \* Backtester.run / runProbabilityBacktest: loop variable
    results,      \* Backtester / AdvancedBacktester: this.results
    calibrationData,    \* AdvancedBacktester: this.calibrationData
    calibration,        \* runProbabilityBacktest: const calibration
    returned,           \* the results arrays the earlier runs on this instance returned
    paramGrid,          \* StrategyOptimizer: this.paramGrid, as its (key, values) pairs in key order
    paramCombinations,  \* optimize: const paramCombinations
    comboIdx,           \* optimize: idx of paramCombinations.forEach
    allResults,         \* optimize: const allResults
    bestScore,          \* optimize: let bestScore
    bestParams,         \* optimize: let bestParams
    paramSensitivity,   \* optimize: const paramSensitivity
    events              \* optimize: the calls of progressCallback and backtestFunction, in order

vars == <<data, config, pc, startIdx, folds, foldIdx, predictions, calls,
          foldResults, aggregate, startRound, endRound, round, results,
          calibrationData, calibration, returned,
          paramGrid, paramCombinations, comboIdx, allResults, bestScore,
          bestParams, paramSensitivity, events>>

wfVars == <<startIdx, folds, foldIdx, predictions, calls, foldResults, aggregate>>
btVars == <<startRound, endRound, round, results, calibrationData, calibration,
            returned>>
optVars == <<paramGrid, paramCombinations, comboIdx, allResults, bestScore,
             bestParams, paramSensitivity, events>>

----------------------------------------------------------------------------
(* Bounds of the model *)

\* longest draw sequence of a full walk-forward run
MaxLen == 5
\* largest trainSize / minTrainSize of a full walk-forward run
MaxTrain == 2
\* largest testSize of a full walk-forward run
MaxTest == 2
\* largest stepSize (the smallest is -1)
MaxStep == 2
\* longest draw sequence of the fold generator on its own
MaxSeqLen == 10
\* largest trainSize / minTrainSize of the fold generator on its own
MaxTrainF == 5
\* largest testSize of the fold generator on its own
MaxTestF == 3
\* folds the model lets generateFolds emit before it stops following the loop
MaxFolds == 12
\* longest draw sequence of a per-round backtest
MaxRounds == 12
\* largest startRound of a per-round backtest
MaxStartRound == 3

----------------------------------------------------------------------------
(* Draw records *)

\* a draw has 6 primary numbers out of 1..45 (optimizer.js 409-416, 441)
DrawSize == 6
UniverseSize == 45

\* the primary numbers of the draw of round r: 6 distinct numbers of 1..45
NumbersOf(r) == [j \in 1..DrawSize |-> ((7 * r + 5 * (j - 1)) % UniverseSize) + 1]
BonusOf(r) == ((7 * r + 5 * DrawSize) % UniverseSize) + 1

DrawRecord(r) == [round |-> r, numbers |-> NumbersOf(r), bonus |-> BonusOf(r)]

\* the draw sequence of n rounds 1..n, ascending by round
DrawSequence(n) == [i \in 1..n |-> DrawRecord(i)]

----------------------------------------------------------------------------
(* Sequences and fractions *)

Range(s) == {s[i] : i \in 1..Len(s)}

Max2(a, b) == IF a >= b THEN a ELSE b
Min2(a, b) == IF a <= b THEN a ELSE b

RECURSIVE SumSeq(_)
SumSeq(s) ==
    IF s = <<>> THEN 0
    ELSE IF Len(s) = 1 THEN s[1]
    ELSE LET half == Len(s) \div 2
         IN SumSeq(SubSeq(s, 1, half)) + SumSeq(SubSeq(s, half + 1, Len(s)))

MaxOfSet(S) == CHOOSE x \in S : \A y \in S : y <= x
MinOfSet(S) == CHOOSE x \in S : \A y \in S : x <= y

RECURSIVE Flatten(_)
Flatten(ss) ==
    IF ss = <<>> THEN <<>>
    ELSE IF Len(ss) = 1 THEN ss[1]
    ELSE LET half == Len(ss) \div 2
         IN Flatten(SubSeq(ss, 1, half)) \o Flatten(SubSeq(ss, half + 1, Len(ss)))

\* the elements of a finite set of integers in ascending order
RECURSIVE SortedSeq(_)
SortedSeq(S) == IF S = {} THEN <<>>
                ELSE LET m == MinOfSet(S) IN <<m>> \o SortedSeq(S \ {m})

\* Array.prototype.slice(start, end) on a sequence, with 0-based arguments:
\* a negative argument counts from the end, both are clamped to [0, length]
SliceFrom(n, i) == IF i < 0 THEN Max2(n + i, 0) ELSE Min2(i, n)
Slice(s, start, end) ==
    LET k == SliceFrom(Len(s), start)
        final == SliceFrom(Len(s), end)
    IN IF final <= k THEN <<>> ELSE SubSeq(s, k + 1, final)

\* the quotient x / y as the source computes it, kept exact
Frac(x, y) == [num |-> x, den |-> y]

----------------------------------------------------------------------------
(* WalkForwardBacktester.generateFolds (main.js 4284-4338) *)

Anchored == "anchored"
Rolling == "rolling"

TrainStartIdx(s, cfg) == s

TrainEndIdx(s, cfg) ==
    IF cfg.windowType = Anchored
    THEN s + cfg.trainSize - 1
    ELSE s + cfg.trainSize - 1

\* mutant: the test segment starts on the last train record
TestStartIdx_Overlap(trainEndIdx) == trainEndIdx

TestStartIdx(trainEndIdx) == trainEndIdx + 1

TestEndIdx(testStartIdx, cfg) == testStartIdx + cfg.testSize - 1

\* mutant: the range check lets the test segment end one past the sequence
OutOfRange_OffByOne(s, cfg, totalRounds) ==
    LET trainEndIdx == TrainEndIdx(s, cfg)
        testEndIdx == TestEndIdx(TestStartIdx(trainEndIdx), cfg)
    IN trainEndIdx >= totalRounds \/ testEndIdx > totalRounds

\* the two break conditions that precede the emission of a fold
OutOfRange(s, cfg, totalRounds) ==
    LET trainEndIdx == TrainEndIdx(s, cfg)
        testEndIdx == TestEndIdx(TestStartIdx(trainEndIdx), cfg)
    IN trainEndIdx >= totalRounds \/ testEndIdx >= totalRounds

BelowMinTrain(s, cfg) ==
    TrainEndIdx(s, cfg) - TrainStartIdx(s, cfg) + 1 < cfg.minTrainSize

\* the fold pushed for start index s
MakeFold(d, s, cfg) ==
    LET trainStartIdx == TrainStartIdx(s, cfg)
        trainEndIdx == TrainEndIdx(s, cfg)
        testStartIdx == TestStartIdx(trainEndIdx)
        testEndIdx == TestEndIdx(testStartIdx, cfg)
        trainRounds == Slice(d, trainStartIdx, trainEndIdx + 1)
        testRounds == Slice(d, testStartIdx, testEndIdx + 1)
    IN [trainRounds |-> trainRounds, testRounds |-> testRounds,
        trainData |-> trainRounds, testData |-> testRounds]

\* one iteration of the while (true) loop
GenerateFoldsIter ==
    /\ pc = "generateFolds"
    /\ LET totalRounds == Len(data) IN
       IF OutOfRange(startIdx, config, totalRounds) \/ BelowMinTrain(startIdx, config)
       THEN /\ pc' = "foldsReturned"
            /\ UNCHANGED <<startIdx, folds>>
       ELSE /\ Len(folds) < MaxFolds
            /\ folds' = Append(folds, MakeFold(data, startIdx, config))
            /\ startIdx' = startIdx + config.stepSize
            /\ pc' = IF startIdx' >= totalRounds THEN "foldsReturned" ELSE "generateFolds"
    /\ UNCHANGED <<data, config, foldIdx, predictions, calls, foldResults, aggregate>>
    /\ UNCHANGED btVars
    /\ UNCHANGED optVars

----------------------------------------------------------------------------
(* calculateMetrics (main.js 3873-3962) *)

\* RANDOM_BASELINES (main.js 3827-3832): 0.0177, 0.000969, 0.0000184, 0.00000007
RANDOM_BASELINES ==
    [k \in 3..6 |->
        CASE k = 3 -> Frac(177, 10000)
          [] k = 4 -> Frac(969, 1000000)
          [] k = 5 -> Frac(184, 10000000)
          [] k = 6 -> Frac(7, 100000000)]

RECURSIVE GCD(_, _)
GCD(a, b) == IF b = 0 THEN a ELSE GCD(b, a % b)

\* a fraction of non-negative numerator and positive denominator in lowest terms
Reduce(q) == LET g == GCD(q.num, q.den) IN
             IF g = 0 THEN q ELSE Frac(q.num \div g, q.den \div g)

\* over the least common denominator, so that the terms stay small
FracAdd(p, q) ==
    LET g == GCD(p.den, q.den) IN
    IF g = 0 THEN Reduce(Frac(p.num * q.den + q.num * p.den, p.den * q.den))
    ELSE Reduce(Frac(p.num * (q.den \div g) + q.num * (p.den \div g),
                     (p.den \div g) * q.den))
FracDiv(p, q) == Reduce(Frac(p.num * q.den, p.den * q.num))
FracLess(p, q) == p.num * q.den < q.num * p.den
FracSub(p, q) == Reduce(Frac(p.num * q.den - q.num * p.den, p.den * q.den))

RECURSIVE FracSum(_)
FracSum(qs) ==
    IF qs = <<>> THEN Frac(0, 1)
    ELSE IF Len(qs) = 1 THEN FracAdd(qs[1], Frac(0, 1))
    ELSE LET half == Len(qs) \div 2
         IN FracAdd(FracSum(SubSeq(qs, 1, half)), FracSum(SubSeq(qs, half + 1, Len(qs))))

\* s.filter(x => P(x)).length
CountIf(s, P(_)) == Cardinality({i \in 1..Len(s) : P(s[i])})

\* the records that carry rank data (result.actualRanks.length > 0)
Ranked(rs) == SelectSeq(rs, LAMBDA r : Len(r.actualRanks) > 0)

\* result.avgRank || (sum of actualRanks / actualRanks.length)
AvgRankOf(r) ==
    IF r.avgRank.num # 0 /\ r.avgRank.den # 0 THEN r.avgRank
    ELSE Frac(SumSeq(r.actualRanks), Len(r.actualRanks))

\* mutant: a record with 3 or more hits does not end the current run
DrawdownStep_NoReset(hits, currentDrawdown, maxDrawdown) ==
    IF hits < 3
    THEN [current |-> currentDrawdown + 1, max |-> Max2(maxDrawdown, currentDrawdown + 1)]
    ELSE [current |-> currentDrawdown, max |-> maxDrawdown]

\* step 8, the body of the for loop (main.js 3941-3946)
DrawdownStep(hits, currentDrawdown, maxDrawdown) ==
    IF hits < 3
    THEN [current |-> currentDrawdown + 1, max |-> Max2(maxDrawdown, currentDrawdown + 1)]
    ELSE [current |-> 0, max |-> maxDrawdown]

\* step 8: the longest run of consecutive records with fewer than 3 hits
RECURSIVE Drawdown(_, _, _)
Drawdown(hitsArray, currentDrawdown, maxDrawdown) ==
    IF hitsArray = <<>> THEN maxDrawdown
    ELSE LET step == DrawdownStep(hitsArray[1], currentDrawdown, maxDrawdown)
         IN Drawdown(Tail(hitsArray), step.current, step.max)

\* the metrics object of a non-empty result list.  sharpeLikeRatio is
\* mean / sqrt(variance): the model keeps the variance and the ratio's square.
MetricsOf(rs) ==
    LET n == Len(rs)
        hitsArray == [i \in 1..n |-> rs[i].hits]
        ranked == Ranked(rs)
        ranksArray == [i \in 1..Len(ranked) |-> AvgRankOf(ranked[i])]
        reciprocalRanks ==
            [i \in 1..Len(ranked) |-> Frac(1, MinOfSet(Range(ranked[i].actualRanks)))]
        hitRates == [k \in 3..6 |-> Frac(CountIf(hitsArray, LAMBDA h : h >= k), n)]
        total == SumSeq(hitsArray)
        squares == SumSeq([i \in 1..n |-> hitsArray[i] * hitsArray[i]])
        variance == Frac(n * squares - total * total, n * n)
    IN [isNull |-> FALSE,
        hitRates |-> hitRates,
        averageHits |-> Frac(total, Len(hitsArray)),
        maxHits |-> MaxOfSet(Range(hitsArray)),
        averageRank |-> IF Len(ranksArray) > 0
                        THEN FracDiv(FracSum(ranksArray), Frac(Len(ranksArray), 1))
                        ELSE Frac(0, 0),
        hasAverageRank |-> Len(ranksArray) > 0,
        mrr |-> IF Len(reciprocalRanks) > 0
                THEN FracDiv(FracSum(reciprocalRanks), Frac(Len(reciprocalRanks), 1))
                ELSE Frac(0, 0),
        hasMrr |-> Len(reciprocalRanks) > 0,
        lifts |-> [k \in 3..6 |-> FracDiv(hitRates[k], RANDOM_BASELINES[k])],
        variance |-> variance,
        sharpeLikeRatioSquared |-> IF variance.num > 0
                                   THEN Frac(total * total, n * squares - total * total)
                                   ELSE Frac(0, 1),
        drawdown |-> Drawdown(hitsArray, 0, 0),
        distribution |-> [h \in 0..6 |-> CountIf(hitsArray, LAMBDA x : x = h)],
        totalRounds |-> n]

Null == [isNull |-> TRUE]

\* an argument that may be missing (undefined or null)
Given(rs) == [present |-> TRUE, list |-> rs]
Missing == [present |-> FALSE, list |-> <<>>]

\* if (!results || results.length === 0) return null
calculateMetricsOf(arg) ==
    IF ~arg.present \/ Len(arg.list) = 0 THEN Null ELSE MetricsOf(arg.list)

calculateMetrics(rs) == calculateMetricsOf(Given(rs))

\* every quotient of a metrics object has a non-zero denominator
NoNaN(m) ==
    m.isNull \/
    (/\ m.averageHits.den # 0
     /\ m.variance.den # 0
     /\ m.sharpeLikeRatioSquared.den # 0
     /\ \A k \in 3..6 : m.hitRates[k].den # 0 /\ m.lifts[k].den # 0
     /\ m.hasAverageRank => m.averageRank.den # 0
     /\ m.hasMrr => m.mrr.den # 0)

----------------------------------------------------------------------------
(* WalkForwardBacktester.evaluateFold, countHits, aggregateMetrics          *)
(* (main.js 4346-4461)                                                      *)

\* actual numbers missing from the prediction get this rank (main.js 4375)
SentinelRank == 999

\* what a strategy call yields: kind is "throw" (message: the Error's message),
\* "array" (list: numbers), "object" (entries: the predictions list of an
\* analysis object, each with number, rank, score), "null", or "noPredictions"
\* (an object without a predictions property)
Outcome(kind, list, entries, message) ==
    [kind |-> kind, list |-> list, entries |-> entries, message |-> message]

\* predictionMap after predictions.forEach((num, idx) => map[num] = idx + 1):
\* a later occurrence of a number overwrites its rank
ArrayPredictionMap(list) ==
    [num \in Range(list) |-> MaxOfSet({i \in 1..Len(list) : list[i] = num})]

\* pred.rank || pred.score || 0
EntryRank(pred) == IF pred.rank # 0 THEN pred.rank
                   ELSE IF pred.score # 0 THEN pred.score ELSE 0

ObjectPredictionMap(entries) ==
    [num \in {entries[i].number : i \in 1..Len(entries)} |->
        EntryRank(entries[MaxOfSet({i \in 1..Len(entries) : entries[i].number = num})])]

\* the empty object
EmptyMap == [num \in {} |-> 0]

\* main.js 4350-4364; anything else only logs a warning and leaves the map empty
PredictionMap(p) ==
    IF p.kind = "array" THEN ArrayPredictionMap(p.list)
    ELSE IF p.kind = "object" THEN ObjectPredictionMap(p.entries)
    ELSE EmptyMap

\* Object.keys(predictionMap).map(Number): integer keys come in ascending order
PredictedNumbers(predictionMap) == SortedSeq(DOMAIN predictionMap)

\* predicted.filter(p => actual.includes(p)).length
countHits(predicted, actual) ==
    Cardinality({i \in 1..Len(predicted) : predicted[i] \in Range(actual)})

\* predictionMap[num] || 999
RankOf(predictionMap, num) ==
    IF num \in DOMAIN predictionMap /\ predictionMap[num] # 0
    THEN predictionMap[num] ELSE SentinelRank

\* the record pushed for one test round (main.js 4367-4387)
EvaluateRound(testRound, predictionMap) ==
    LET actual == testRound.numbers
        predictedNumbers == PredictedNumbers(predictionMap)
        actualRanks == [i \in 1..Len(actual) |-> RankOf(predictionMap, actual[i])]
    IN [round |-> testRound.round,
        predicted |-> predictedNumbers,
        actual |-> actual,
        bonus |-> testRound.bonus,
        hits |-> countHits(predictedNumbers, actual),
        actualRanks |-> actualRanks,
        avgRank |-> Frac(SumSeq(actualRanks), Len(actualRanks))]

\* no error property on a fold result
NoError == "<no error>"

\* fold.trainRounds[0].round and its like throw a TypeError on an empty segment
ReadsMissingRound(fold) == fold.trainRounds = <<>> \/ fold.testRounds = <<>>

FoldResult(foldIndex, fold, rs, error) ==
    [foldIndex |-> foldIndex,
     trainStart |-> fold.trainRounds[1].round,
     trainEnd |-> fold.trainRounds[Len(fold.trainRounds)].round,
     testStart |-> fold.testRounds[1].round,
     testEnd |-> fold.testRounds[Len(fold.testRounds)].round,
     results |-> rs,
     error |-> error]

\* the results list evaluateFold builds
EvaluatedRecords(fold, p) ==
    [i \in 1..Len(fold.testRounds) |-> EvaluateRound(fold.testRounds[i], PredictionMap(p))]

\* evaluateFold's return value; a fold carries no index, so fold.index || 0 is 0
evaluateFold(fold, p) == FoldResult(0, fold, EvaluatedRecords(fold, p), NoError)

\* the entry the catch block of run pushes (main.js 4257-4265)
FailedFoldResult(idx, fold, message) == FoldResult(idx, fold, <<>>, message)

\* mutant: a round that several folds tested is kept once
AllResults_Deduplicated(frs) ==
    LET all == Flatten([i \in 1..Len(frs) |-> frs[i].results])
        firstOfRound == {i \in 1..Len(all) : \A j \in 1..(i - 1) : all[j].round # all[i].round}
    IN [k \in 1..Cardinality(firstOfRound) |->
           all[CHOOSE i \in firstOfRound :
                  Cardinality({j \in firstOfRound : j <= i}) = k]]

\* allResults of aggregateMetrics: the results of every fold, flattened
AllResults(frs) == Flatten([i \in 1..Len(frs) |-> frs[i].results])

\* mutant: the aggregator divides by the record count without the empty check
aggregateMetrics_NoEmptyCheck(frs) ==
    IF Len(AllResults(frs)) = 0
    THEN [isNull |-> FALSE, averageHits |-> Frac(0, 0), variance |-> Frac(0, 0),
          sharpeLikeRatioSquared |-> Frac(0, 1),
          hitRates |-> [k \in 3..6 |-> Frac(0, 0)],
          lifts |-> [k \in 3..6 |-> Frac(0, 0)],
          hasAverageRank |-> FALSE, hasMrr |-> FALSE, totalRounds |-> 0]
    ELSE calculateMetrics(AllResults(frs))

\* mutant: one failed fold makes the whole aggregate null
aggregateMetrics_NullOnFailure(frs) ==
    IF \E i \in 1..Len(frs) : frs[i].error # NoError THEN Null
    ELSE calculateMetrics(AllResults(frs))

\* calculateMetrics is defined in the same script, so its branch is the one taken
aggregateMetrics(frs) ==
    IF Len(AllResults(frs)) = 0 THEN Null ELSE calculateMetrics(AllResults(frs))

----------------------------------------------------------------------------
(* The ranking an analyzer returns (optimizer.js 430-486, part_000 31-63) *)

\* The scores of both analyzers are functions of the analysis data alone.  The
\* model ranks the 45 numbers by how often they appear in it (most frequent
\* first, smaller number first on a tie) in place of the weighted features.
\* how often a number appears in the analysis data
Appearances(num, analysisData) ==
    Cardinality({i \in 1..Len(analysisData) : num \in Range(analysisData[i].numbers)})

\* the numbers from num on that appear c times, ascending
RECURSIVE NumbersWithCount(_, _, _)
NumbersWithCount(tally, c, num) ==
    IF num > UniverseSize THEN <<>>
    ELSE (IF tally[num] = c THEN <<num>> ELSE <<>>) \o NumbersWithCount(tally, c, num + 1)

\* the numbers by descending count, ascending within one count
RECURSIVE RankBy(_, _)
RankBy(tally, c) ==
    IF c < 0 THEN <<>>
    ELSE NumbersWithCount(tally, c, 1) \o RankBy(tally, c - 1)

\* analysis.predictions / scores: every number of the universe with its rank
Ranking(analysisData) ==
    LET count == [num \in 1..UniverseSize |-> Appearances(num, analysisData)]
        order == RankBy(count, Len(analysisData))
    IN [i \in 1..UniverseSize |-> [number |-> order[i], rank |-> i, score |-> count[order[i]]]]

----------------------------------------------------------------------------
(* WalkForwardBacktester.run (main.js 4225-4278) *)

\* An analysis object's predictions, best first: number 15 carries rank and
\* score, number 20 a score only, number 25 neither
ObjectEntries ==
    << [number |-> 15, rank |-> 1, score |-> 9],
       [number |-> 20, rank |-> 0, score |-> 5],
       [number |-> 25, rank |-> 0, score |-> 0] >>

\* The strategy is the caller's function of (fold.trainData, fold.testRounds):
\* it may throw an Error, return a list of numbers (which it may have read
\* from either argument), an analysis object (a short predictions list, or
\* the ranking of all 45 numbers an analyzer returns), or something malformed.
StrategyOutcomes(trainData, testRounds) ==
    { Outcome("throw", <<>>, <<>>, "strategy failed"),
      Outcome("array", <<15, 20, 25, 1, 2, 3>>, <<>>, ""),
      Outcome("array", trainData[Len(trainData)].numbers, <<>>, ""),
      Outcome("array", testRounds[1].numbers, <<>>, ""),
      Outcome("object", <<>>, ObjectEntries, ""),
      Outcome("object", <<>>, Ranking(trainData), ""),
      Outcome("null", <<>>, <<>>, ""),
      Outcome("noPredictions", <<>>, <<>>, "") }

\* no call is pending
NoPrediction == Outcome("none", <<>>, <<>>, "")

Call(idx, trainData, testRounds, outcome) ==
    [foldIndex |-> idx, trainData |-> trainData, testRounds |-> testRounds,
     outcome |-> outcome]

\* mutant: the strategy is run again for every test round of the fold
CallStrategy_PerTestRound ==
    /\ pc = "foldsReturned"
    /\ foldIdx < Len(folds)
    /\ LET fold == folds[foldIdx + 1] IN
       \E out \in StrategyOutcomes(fold.trainData, fold.testRounds) :
          /\ predictions' = out
          /\ calls' = calls \o [i \in 1..Len(fold.testRounds) |->
                                   Call(foldIdx, fold.trainData, fold.testRounds, out)]
          /\ pc' = IF out.kind = "throw" THEN "catch" ELSE "evaluateFold"
    /\ UNCHANGED <<data, config, startIdx, folds, foldIdx, foldResults, aggregate>>
    /\ UNCHANGED btVars
    /\ UNCHANGED optVars

\* const predictions = strategyFunction(fold.trainData, fold.testRounds)
CallStrategy ==
    /\ pc = "foldsReturned"
    /\ foldIdx < Len(folds)
    /\ LET fold == folds[foldIdx + 1] IN
       \E out \in StrategyOutcomes(fold.trainData, fold.testRounds) :
          /\ predictions' = out
          /\ calls' = Append(calls, Call(foldIdx, fold.trainData, fold.testRounds, out))
          /\ pc' = IF out.kind = "throw" THEN "catch" ELSE "evaluateFold"
    /\ UNCHANGED <<data, config, startIdx, folds, foldIdx, foldResults, aggregate>>
    /\ UNCHANGED btVars
    /\ UNCHANGED optVars

\* const foldResult = this.evaluateFold(fold, predictions); foldResults.push(foldResult)
EvaluateFold ==
    /\ pc = "evaluateFold"
    /\ LET fold == folds[foldIdx + 1] IN
       IF ReadsMissingRound(fold)
       THEN /\ predictions' = Outcome("throw", <<>>, <<>>, "TypeError")
            /\ pc' = "catch"
            /\ UNCHANGED <<foldIdx, foldResults>>
       ELSE /\ foldResults' = Append(foldResults, evaluateFold(fold, predictions))
            /\ foldIdx' = foldIdx + 1
            /\ predictions' = NoPrediction
            /\ pc' = "foldsReturned"
    /\ UNCHANGED <<data, config, startIdx, folds, calls, aggregate>>
    /\ UNCHANGED btVars
    /\ UNCHANGED optVars

\* mutant: the catch block lets the error escape from run
CatchError_Rethrow ==
    /\ pc = "catch"
    /\ pc' = "aborted"
    /\ UNCHANGED <<data, config, startIdx, folds, foldIdx, predictions, calls,
                   foldResults, aggregate>>
    /\ UNCHANGED btVars
    /\ UNCHANGED optVars

\* catch (error) { foldResults.push({..., results: [], error: error.message}) }
CatchError ==
    /\ pc = "catch"
    /\ LET fold == folds[foldIdx + 1] IN
       IF ReadsMissingRound(fold)
       THEN /\ pc' = "aborted"
            /\ UNCHANGED <<foldIdx, foldResults, predictions>>
       ELSE /\ foldResults' = Append(foldResults,
                                     FailedFoldResult(foldIdx, fold, predictions.message))
            /\ foldIdx' = foldIdx + 1
            /\ predictions' = NoPrediction
            /\ pc' = "foldsReturned"
    /\ UNCHANGED <<data, config, startIdx, folds, calls, aggregate>>
    /\ UNCHANGED btVars
    /\ UNCHANGED optVars

\* const aggregateMetrics = this.aggregateMetrics(foldResults); return {...}
AggregateAndReturn ==
    /\ pc = "foldsReturned"
    /\ foldIdx = Len(folds)
    /\ aggregate' = aggregateMetrics(foldResults)
    /\ pc' = "done"
    /\ UNCHANGED <<data, config, startIdx, folds, foldIdx, predictions, calls, foldResults>>
    /\ UNCHANGED btVars
    /\ UNCHANGED optVars

----------------------------------------------------------------------------

----------------------------------------------------------------------------
(* Backtester.run with LottoAnalyzer.analyze (optimizer.js 430-486, 751-916) *)
(* AdvancedBacktester.runProbabilityBacktest with                           *)
(* ProbabilityScorer.calculateAllScores (part_005 22-119, part_000 31-63)   *)

\* calculateAllScores refuses fewer analysis records than this (part_000 36)
MinAnalysisData == 10
\* the rank runProbabilityBacktest gives a number missing from the scores (part_005 74)
MissingScoreRank == 45

\* const endRound = upToRound || this.data[this.data.length - 1].round
\* (0 and null are falsy; the caller never reaches this with empty data)
AnalyzeEndRound(d, upToRound) ==
    IF upToRound # 0 THEN upToRound ELSE d[Len(d)].round

\* analyze: this.data.filter(d => d.round <= endRound)
AnalyzeData(d, upToRound) ==
    SelectSeq(d, LAMBDA rec : rec.round <= AnalyzeEndRound(d, upToRound))

\* calculateAllScores: upToRound ? data.filter(d => d.round <= upToRound) : data
ScoreData(d, upToRound) ==
    IF upToRound # 0 THEN SelectSeq(d, LAMBDA rec : rec.round <= upToRound) ELSE d

\* Backtester.countHits (optimizer.js 835-841): one count per predicted entry
BacktesterCountHits(predicted, actual) ==
    Cardinality({i \in 1..Len(predicted) : predicted[i] \in Range(actual)})

\* the result pushed for a round (optimizer.js 784-817, part_005 45-91);
\* consulted lists the rounds of the draws the analysis was given
RoundResult(actualData, ranking, topN, missingRank, consulted) ==
    LET actualNumbers == actualData.numbers
        predictedTop == Slice(ranking, 0, topN)
        predictedNumbers == [i \in 1..Len(predictedTop) |-> predictedTop[i].number]
        rankOf(num) ==
            IF \E i \in 1..Len(ranking) : ranking[i].number = num
            THEN ranking[MinOfSet({i \in 1..Len(ranking) : ranking[i].number = num})].rank
            ELSE missingRank
        actualRanks == [i \in 1..Len(actualNumbers) |-> rankOf(actualNumbers[i])]
    IN [round |-> actualData.round,
        predicted |-> predictedNumbers,
        actual |-> actualNumbers,
        bonus |-> actualData.bonus,
        hits |-> BacktesterCountHits(predictedNumbers, actualNumbers),
        bonusHit |-> actualData.bonus \in Range(predictedNumbers),
        actualRanks |-> actualRanks,
        avgRank |-> Frac(SumSeq(actualRanks), Len(actualRanks)),
        consulted |-> consulted]

RoundsOf(recs) == {recs[i].round : i \in 1..Len(recs)}

\* allData.find(d => d.round === round)
HasRound(d, r) == \E i \in 1..Len(d) : d[i].round = r
FindRound(d, r) == d[MinOfSet({i \in 1..Len(d) : d[i].round = r})]

\* Backtester.calculateStatistics (optimizer.js 846-916)
calculateStatistics(rs) ==
    IF Len(rs) = 0 THEN Null
    ELSE LET n == Len(rs)
             hitsArray == [i \in 1..n |-> rs[i].hits]
             best == MinOfSet({i \in 1..n : \A j \in 1..n : rs[j].hits <= rs[i].hits})
             worst == MinOfSet({i \in 1..n : \A j \in 1..n : rs[j].hits >= rs[i].hits})
         IN [isNull |-> FALSE,
             totalRounds |-> n,
             averageHits |-> Frac(SumSeq(hitsArray), n),
             averageRank |-> FracDiv(FracSum([i \in 1..n |-> Reduce(rs[i].avgRank)]),
                                     Frac(n, 1)),
             bonusHitRate |-> Frac(CountIf(rs, LAMBDA r : r.bonusHit), n),
             hitDistribution |-> [h \in 0..6 |-> CountIf(hitsArray, LAMBDA x : x = h)],
             hit3PlusRate |-> Frac(CountIf(hitsArray, LAMBDA x : x >= 3), n),
             bestRound |-> rs[best].round,
             bestHits |-> rs[best].hits,
             worstRound |-> rs[worst].round,
             worstHits |-> rs[worst].hits]

----------------------------------------------------------------------------
(* ProbabilityScorer.analyzeCalibration (part_000 285-348) *)

NumBins == 10

FracMul(p, q) == Reduce(Frac(p.num * q.num, p.den * q.den))
FracAbs(q) == IF q.num < 0 THEN Frac(0 - q.num, q.den) ELSE q

\* the (probability, appeared) pairs the two forEach loops visit, in order
CalibrationPairs(preds) ==
    Flatten([r \in 1..Len(preds) |->
                [j \in 1..Len(preds[r].scores) |->
                    [probability |-> preds[r].scores[j].probability,
                     appeared |-> preds[r].scores[j].number \in Range(preds[r].actual)]]])

\* Math.min(numBins - 1, Math.floor(s.probability / 10))
BinIdx(probability) == Min2(NumBins - 1, probability \div 10)

\* bins[i] after the two passes over the bins (part_000 297-315)
CalibrationBin(pairs, i) ==
    LET members == SelectSeq(pairs, LAMBDA pair : BinIdx(pair.probability) = i)
        totalPredictions == Len(members)
        actualHits == Len(SelectSeq(members, LAMBDA pair : pair.appeared))
        confidenceSum == SumSeq([j \in 1..Len(members) |-> members[j].probability])
    IN [min |-> i * 10,
        max |-> (i + 1) * 10,
        totalPredictions |-> totalPredictions,
        actualHits |-> actualHits,
        avgConfidence |-> IF totalPredictions > 0
                          THEN Reduce(Frac(confidenceSum, totalPredictions))
                          ELSE Frac(0, 1),
        accuracy |-> IF totalPredictions > 0
                     THEN Reduce(Frac(actualHits * 100, totalPredictions))
                     ELSE Frac(0, 1)]

\* weight * Math.abs(bin.avgConfidence - bin.accuracy) (part_000 321-326)
EceTerm(bin, totalPredictions) ==
    IF bin.totalPredictions > 0
    THEN FracMul(Frac(bin.totalPredictions, totalPredictions),
                 FracAbs(FracSub(bin.avgConfidence, bin.accuracy)))
    ELSE Frac(0, 1)

\* mutant: the probability is not brought to the scale of 0..1
BrierTerm_Unscaled(pair) ==
    LET actual == IF pair.appeared THEN 1 ELSE 0
    IN Frac((pair.probability - actual) * (pair.probability - actual), 1)

\* Math.pow(s.probability / 100 - actual, 2) (part_000 334-335)
BrierTerm(pair) ==
    LET actual == IF pair.appeared THEN 1 ELSE 0
        difference == pair.probability - 100 * actual
    IN Reduce(Frac(difference * difference, 100 * 100))

analyzeCalibration(preds) ==
    LET pairs == CalibrationPairs(preds)
        bins == [i \in 0..(NumBins - 1) |-> CalibrationBin(pairs, i)]
        totalPredictions == SumSeq([i \in 1..NumBins |-> bins[i - 1].totalPredictions])
        brierCount == Len(pairs)
        brierSum == FracSum([j \in 1..Len(pairs) |-> BrierTerm(pairs[j])])
    IN [bins |-> bins,
        ece |-> FracSum([i \in 1..NumBins |-> EceTerm(bins[i - 1], totalPredictions)]),
        brierScore |-> IF brierCount > 0 THEN FracDiv(brierSum, Frac(brierCount, 1))
                       ELSE Frac(0, 1),
        totalPredictions |-> totalPredictions]

----------------------------------------------------------------------------
(* Backtester.run and AdvancedBacktester.runProbabilityBacktest *)

BacktesterEngine == "Backtester"
AdvancedEngine == "AdvancedBacktester"

\* analysisFunction as the callers build it (main.js 810-812): a function of
\* the as-of round whose result Backtester.run takes as it comes.  The model
\* has two such functions: one hands back a list without repetition, the
\* other a list that names one number twice (config.custom tells which).
DefaultAnalysis == "analyze"
CustomAnalysis == "analysisFunction"
CustomPredictions ==
    LET ranked(list) == [i \in 1..Len(list) |-> [number |-> list[i], rank |-> i, score |-> 0]]
    IN <<ranked(<<8, 13, 18, 23, 28, 33, 1, 2, 3, 4>>),
         ranked(<<8, 8, 13, 18, 23, 28, 33, 1, 2, 3>>)>>

\* this.params.recentWindow (optimizer.js 389)
RecentWindow == 50

\* Array.prototype.sort((a, b) => a - b) on a list of numbers
RECURSIVE SortAscending(_)
SortAscending(numbers) ==
    IF numbers = <<>> THEN <<>>
    ELSE LET rest == SortAscending(Tail(numbers))
             k == Cardinality({i \in 1..Len(rest) : rest[i] <= Head(numbers)})
         IN SubSeq(rest, 1, k) \o <<Head(numbers)>> \o SubSeq(rest, k + 1, Len(rest))

\* calcConsecutivePattern (optimizer.js 625-638) sorts row.numbers in place
\* for every row of data.slice(-recentWindow); the rows are the records of
\* this.data themselves, so this is the draw sequence after analyze
SortedByConsecutivePattern(d, upToRound) ==
    LET analysisData == AnalyzeData(d, upToRound)
        recentData == Slice(analysisData, 0 - RecentWindow, Len(analysisData))
    IN [i \in 1..Len(d) |->
           IF d[i].round \in {recentData[j].round : j \in 1..Len(recentData)}
           THEN [d[i] EXCEPT !.numbers = SortAscending(@)]
           ELSE d[i]]

\* analyzeFn(round - 1) (optimizer.js 759, 779): what the analysis function
\* hands back, or that it threw, and the draw sequence it leaves behind
AnalyzeFn(upToRound) ==
    IF config.analysis = CustomAnalysis
    THEN {[kind |-> "analysis", predictions |-> CustomPredictions[config.custom],
           consulted |-> {}, data |-> data]}
    ELSE IF upToRound = 0 /\ data = <<>>
    THEN \* analyze reads this.data[-1].round
         {[kind |-> "thrown", predictions |-> <<>>, consulted |-> {}, data |-> data]}
    ELSE LET analysisData == AnalyzeData(data, upToRound) IN
         IF analysisData = <<>>
         THEN \* analyze returned [], whose predictions is undefined
              {[kind |-> "empty", predictions |-> <<>>, consulted |-> {}, data |-> data]}
         ELSE {[kind |-> "analysis", predictions |-> Ranking(analysisData),
                consulted |-> RoundsOf(analysisData),
                data |-> SortedByConsecutivePattern(data, upToRound)]}

\* a pushed record's actual is the record's numbers array itself (optimizer.js
\* 785, 807): it reads as that array reads now
Realias(rs, d) ==
    [i \in 1..Len(rs) |-> [rs[i] EXCEPT !.actual = FindRound(d, rs[i].round).numbers]]

\* one iteration of Backtester.run's loop over [startRound, endRound]
BacktesterRound ==
    /\ pc = "backtest"
    /\ config.engine = BacktesterEngine
    /\ round <= endRound
    /\ \E analysis \in AnalyzeFn(round - 1) :
         /\ data' = analysis.data
         /\ returned' = [k \in 1..Len(returned) |-> Realias(returned[k], analysis.data)]
         /\ IF analysis.kind = "thrown"
            THEN /\ pc' = "thrown"
                 /\ UNCHANGED <<round, results>>
            ELSE IF ~HasRound(data, round)
            THEN /\ round' = round + 1
                 /\ results' = Realias(results, analysis.data)
                 /\ UNCHANGED pc
            ELSE IF analysis.kind = "empty"
            THEN /\ pc' = "thrown"
                 /\ UNCHANGED <<round, results>>
            ELSE /\ results' = Append(Realias(results, analysis.data),
                                      RoundResult(FindRound(analysis.data, round),
                                                  analysis.predictions,
                                                  config.topN, SentinelRank,
                                                  analysis.consulted))
                 /\ round' = round + 1
                 /\ UNCHANGED pc
    /\ UNCHANGED <<config, startRound, endRound, calibrationData, calibration>>
    /\ UNCHANGED wfVars
    /\ UNCHANGED optVars

\* one iteration of runProbabilityBacktest's loop; its try block swallows the
\* error calculateAllScores throws on fewer than 10 analysis records
ProbabilityRound ==
    /\ pc = "backtest"
    /\ config.engine = AdvancedEngine
    /\ round <= endRound
    /\ LET analysisData == ScoreData(data, round - 1) IN
       IF Len(analysisData) < MinAnalysisData \/ ~HasRound(data, round)
       THEN UNCHANGED <<results, calibrationData>>
       ELSE \E scores \in {Ranking(analysisData)} :
            LET actualData == FindRound(data, round)
            IN /\ results' = Append(results,
                                    RoundResult(actualData, scores, config.topN,
                                                MissingScoreRank, RoundsOf(analysisData)))
               /\ calibrationData' =
                     Append(calibrationData,
                            [round |-> round,
                             scores |-> [i \in 1..Len(scores) |->
                                            [number |-> scores[i].number,
                                             probability |-> scores[i].score]],
                             actual |-> actualData.numbers])
    /\ round' = round + 1
    /\ UNCHANGED <<data, config, pc, startRound, endRound, calibration, returned>>
    /\ UNCHANGED wfVars
    /\ UNCHANGED optVars

\* after the loop: const stats = this.calculateStatistics(topN); return {...}
ReturnStatistics ==
    /\ pc = "backtest"
    /\ round > endRound
    /\ aggregate' = calculateStatistics(results)
    /\ calibration' = IF config.engine = AdvancedEngine
                      THEN analyzeCalibration(calibrationData)
                      ELSE calibration
    /\ pc' = "done"
    /\ UNCHANGED <<data, config, startIdx, folds, foldIdx, predictions, calls, foldResults>>
    /\ UNCHANGED <<startRound, endRound, round, results, calibrationData, returned>>
    /\ UNCHANGED optVars

\* the runs of one instance the model follows
MaxRuns == 2

\* the entry of a further run on the same instance (optimizer.js 751-757,
\* part_005 22-27): this.results and this.calibrationData are new arrays;
\* the array the run before returned stays with its caller
RunAgain ==
    /\ pc = "done"
    /\ Len(returned) < MaxRuns - 1
    /\ startRound' \in 1..MaxStartRound
    /\ endRound' \in (startRound' - 1)..(Len(data) + 1)
    /\ round' = startRound'
    /\ results' = <<>>
    /\ calibrationData' = <<>>
    /\ returned' = Append(returned, results)
    /\ pc' = "backtest"
    /\ UNCHANGED <<data, config, calibration>>
    /\ UNCHANGED wfVars
    /\ UNCHANGED optVars

\* this.scorer.analyzeCalibration(this.calibrationData) on its own
AnalyzeCalibration ==
    /\ pc = "analyzeCalibration"
    /\ calibration' = analyzeCalibration(calibrationData)
    /\ pc' = "calibrated"
    /\ UNCHANGED <<data, config, startRound, endRound, round, results, calibrationData,
                   returned>>
    /\ UNCHANGED wfVars
    /\ UNCHANGED optVars

----------------------------------------------------------------------------
(* StrategyOptimizer (optimizer.js 27-290) *)

\* most values one parameter of the grid lists
MaxValues == 2
\* most combinations the Cartesian product of a grid has
MaxCombinations == 4
\* largest statistic a backtest reports
MaxScore == 1
\* largest config.maxIterations (0 stands for the default null as well)
MaxIterations == 2

\* a score: a finite number, or -Infinity
Finite(x) == [inf |-> FALSE, val |-> x]
NegInfinity == [inf |-> TRUE, val |-> 0]
\* mutant: a >= b on scores
GreaterThan_OrEqual(a, b) == IF b.inf THEN TRUE ELSE IF a.inf THEN FALSE ELSE a.val >= b.val

\* a > b on scores
GreaterThan(a, b) == IF a.inf THEN FALSE ELSE IF b.inf THEN TRUE ELSE a.val > b.val

\* Object.keys(paramGrid) and the value lists in that order
ParamNames(grid) == [i \in 1..Len(grid) |-> grid[i].name]
ParamValues(grid) == [i \in 1..Len(grid) |-> grid[i].values]

\* newCombinations of one paramValues.forEach step (optimizer.js 135-143)
ExtendCombinations(combinations, values) ==
    Flatten([c \in 1..Len(combinations) |->
                [v \in 1..Len(values) |-> Append(combinations[c], values[v])]])

\* combinations after the first k value lists (optimizer.js 133-143)
RECURSIVE CartesianProduct(_, _)
CartesianProduct(paramValues, k) ==
    IF k = 0 THEN << <<>> >>
    ELSE ExtendCombinations(CartesianProduct(paramValues, k - 1), paramValues[k])

\* the params object of a combination (optimizer.js 146-152)
ToParams(paramNames, combo) ==
    [name \in Range(paramNames) |->
        combo[CHOOSE i \in 1..Len(paramNames) : paramNames[i] = name]]

AllCombinations(grid) ==
    LET combinations == CartesianProduct(ParamValues(grid), Len(grid))
    IN [i \in 1..Len(combinations) |-> ToParams(ParamNames(grid), combinations[i])]

\* [...result].sort(() => Math.random() - 0.5).slice(0, k): the first k
\* entries of some rearrangement of result
RandomSamples(result, k) ==
    {[i \in 1..k |-> result[pick[i]]] :
        pick \in {f \in [1..k -> 1..Len(result)] :
                     \A i, j \in 1..k : f[i] = f[j] => i = j}}

\* mutant: the last combination of the product is left out
generateParamCombinations_DropLast(grid, maxCombinations) ==
    LET result == AllCombinations(grid)
    IN {SubSeq(result, 1, Len(result) - 1)}

\* generateParamCombinations (optimizer.js 128-162): every array it can return
generateParamCombinations(grid, maxCombinations) ==
    LET result == AllCombinations(grid) IN
    IF maxCombinations # 0 /\ Len(result) > maxCombinations
    THEN RandomSamples(result, maxCombinations)
    ELSE {result}

\* what this.backtestFunction(params) does: it throws an Error, it returns
\* null (reading backtestResult.statistics then throws a TypeError), or it
\* returns a result whose statistics carry averageHits (no hitRates,
\* hit3PlusRate 0)
BacktestOutcomes ==
    {[kind |-> "thrown", message |-> "backtest failed",
      statistics |-> [averageHits |-> 0, hit3PlusRate |-> 0]],
     [kind |-> "null", message |-> "Cannot read properties of null",
      statistics |-> [averageHits |-> 0, hit3PlusRate |-> 0]]}
    \cup {[kind |-> "result", message |-> "",
           statistics |-> [averageHits |-> h, hit3PlusRate |-> 0]] : h \in 0..MaxScore}

Metrics == {"hit_rate_3", "average_hits"}

\* extractMetric (optimizer.js 170-195); x || 0 and x ? x : 0 give 0 for x = 0
extractMetric(backtestResult, metric) ==
    LET stats == backtestResult.statistics IN
    CASE metric = "hit_rate_3" ->
             Finite(IF stats.hit3PlusRate # 0 THEN stats.hit3PlusRate ELSE 0)
      [] metric = "average_hits" ->
             Finite(IF stats.averageHits # 0 THEN stats.averageHits ELSE 0)
      [] OTHER -> Finite(0)

\* extractAllMetrics (optimizer.js 202-214), the two metrics of the model
extractAllMetrics(backtestResult) ==
    [hit_rate_3 |-> extractMetric(backtestResult, "hit_rate_3"),
     average_hits |-> extractMetric(backtestResult, "average_hits")]

\* the entry pushed to allResults for one combination (optimizer.js 83-88, 101-105)
CombinationResult(params, score, error, backtestResult) ==
    [params |-> params, score |-> score, error |-> error,
     metrics |-> extractAllMetrics(backtestResult),
     statistics |-> backtestResult.statistics]

\* mutant: r goes in front of the entries of its own score
InsertByScore_TiesFirst(sorted, r) ==
    LET k == Cardinality({i \in 1..Len(sorted) : GreaterThan(sorted[i].score, r.score)})
    IN SubSeq(sorted, 1, k) \o <<r>> \o SubSeq(sorted, k + 1, Len(sorted))

\* allResults.sort((a, b) => b.score - a.score): r goes behind every entry
\* whose score is not smaller; b.score - a.score is NaN for two scores of
\* -Infinity, which the sort takes as 0
InsertByScore(sorted, r) ==
    LET k == Cardinality({i \in 1..Len(sorted) : ~GreaterThan(r.score, sorted[i].score)})
    IN SubSeq(sorted, 1, k) \o <<r>> \o SubSeq(sorted, k + 1, Len(sorted))

RECURSIVE SortByScore(_)
SortByScore(rs) ==
    IF rs = <<>> THEN <<>>
    ELSE InsertByScore(SortByScore(SubSeq(rs, 1, Len(rs) - 1)), rs[Len(rs)])

\* mutant: the scores of a group are taken from every result, failed or not
GroupScores_AllResults(rs, paramName, value) ==
    LET members == SelectSeq(rs, LAMBDA r : r.params[paramName] = value)
    IN [i \in 1..Len(members) |-> members[i].score.val]

\* groups[value] (optimizer.js 234-242): the scores of the results with that
\* value, results with an error skipped
GroupScores(rs, paramName, value) ==
    LET members == SelectSeq(rs, LAMBDA r : r.error = NoError /\ r.params[paramName] = value)
    IN [i \in 1..Len(members) |-> members[i].score.val]

\* valueScores[value] (optimizer.js 246-253); stdSquared is std * std
ValueScore(scores) ==
    LET n == Len(scores)
        sum == SumSeq(scores)
        squares == SumSeq([i \in 1..n |-> scores[i] * scores[i]])
    IN [mean |-> Reduce(Frac(sum, n)),
        stdSquared |-> Reduce(Frac(n * squares - sum * sum, n * n)),
        count |-> n]

\* the values of paramName among the results without error
GroupValues(rs, paramName) ==
    {rs[i].params[paramName] : i \in {j \in 1..Len(rs) : rs[j].error = NoError}}

\* sensitivity[paramName] (optimizer.js 230-271); the keys of groups are the
\* values as strings, listed by Object.keys in ascending numeric order
ParamSensitivityOf(rs, paramName) ==
    LET valueSet == GroupValues(rs, paramName)
        values == SortedSeq(valueSet)
        valueScores == [key \in {ToString(v) : v \in valueSet} |->
                           ValueScore(GroupScores(rs, paramName,
                                                  CHOOSE v \in valueSet : ToString(v) = key))]
        scores == [i \in 1..Len(values) |-> valueScores[ToString(values[i])].mean]
        maxScore == scores[CHOOSE i \in 1..Len(scores) :
                              \A j \in 1..Len(scores) : ~FracLess(scores[i], scores[j])]
        minScore == scores[CHOOSE i \in 1..Len(scores) :
                              \A j \in 1..Len(scores) : ~FracLess(scores[j], scores[i])]
        first(m) == MinOfSet({i \in 1..Len(scores) : scores[i] = m})
    IN [valueScores |-> valueScores,
        bestValue |-> ToString(values[first(maxScore)]),
        worstValue |-> ToString(values[first(minScore)]),
        range |-> FracSub(maxScore, minScore),
        relativeRange |-> IF minScore.num > 0
                          THEN FracDiv(FracSub(maxScore, minScore), minScore)
                          ELSE Frac(0, 1)]

\* analyzeParamSensitivity (optimizer.js 222-275)
analyzeParamSensitivity(rs) ==
    IF Len(rs) = 0 THEN <<>>
    ELSE [paramName \in {n \in DOMAIN rs[1].params : GroupValues(rs, n) # {}} |->
             ParamSensitivityOf(rs, paramName)]

\* the entry pushed by the catch block (optimizer.js 101-105)
FailedCombination(params, message) ==
    [params |-> params, score |-> NegInfinity, error |-> message]

\* one call of progressCallback or of this.backtestFunction
Event(type, current, total, params) ==
    [type |-> type, current |-> current, total |-> total, params |-> params]

\* the optimizer's variables while no optimization runs
OptimizerIdle ==
    /\ paramGrid = <<>>
    /\ paramCombinations = <<>>
    /\ comboIdx = 0
    /\ allResults = <<>>
    /\ bestScore = NegInfinity
    /\ bestParams = Null
    /\ paramSensitivity = <<>>
    /\ events = <<>>

\* optimize up to the forEach (optimizer.js 44-59)
OptimizeStart ==
    /\ pc = "optimize"
    /\ paramCombinations' \in generateParamCombinations(paramGrid, config.maxIterations)
    /\ allResults' = <<>>
    /\ bestScore' = NegInfinity
    /\ bestParams' = Null
    /\ pc' = "forEach"
    /\ UNCHANGED <<data, config, paramGrid, comboIdx, paramSensitivity, events>>
    /\ UNCHANGED wfVars
    /\ UNCHANGED btVars

\* mutant: an error of the backtest function leaves optimize
OptimizeCombination_Abort ==
    /\ pc = "forEach"
    /\ comboIdx < Len(paramCombinations)
    /\ pc' = "thrown"
    /\ UNCHANGED <<data, config>>
    /\ UNCHANGED optVars
    /\ UNCHANGED wfVars
    /\ UNCHANGED btVars

\* one iteration of paramCombinations.forEach (optimizer.js 61-107)
OptimizeCombination ==
    /\ pc = "forEach"
    /\ comboIdx < Len(paramCombinations)
    /\ LET params == paramCombinations[comboIdx + 1]
           current == comboIdx + 1
           totalCombinations == Len(paramCombinations)
           reported == IF config.progressCallback
                       THEN <<Event("progressCallback", current, totalCombinations, params)>>
                       ELSE <<>>
           called == <<Event("backtestFunction", current, totalCombinations, params)>>
       IN \E backtestResult \in BacktestOutcomes :
            /\ events' = events \o reported \o called
            /\ IF backtestResult.kind \in {"thrown", "null"}
               THEN /\ allResults' = Append(allResults,
                                            FailedCombination(params, backtestResult.message))
                    /\ UNCHANGED <<bestScore, bestParams>>
               ELSE LET score == extractMetric(backtestResult, config.metric) IN
                    /\ allResults' = Append(allResults,
                                            CombinationResult(params, score, NoError,
                                                              backtestResult))
                    /\ IF GreaterThan(score, bestScore)
                       THEN bestScore' = score /\ bestParams' = params
                       ELSE UNCHANGED <<bestScore, bestParams>>
    /\ comboIdx' = comboIdx + 1
    /\ UNCHANGED <<data, config, pc, paramGrid, paramCombinations, paramSensitivity>>
    /\ UNCHANGED wfVars
    /\ UNCHANGED btVars

\* optimize after the forEach (optimizer.js 109-119)
OptimizeReturn ==
    /\ pc = "forEach"
    /\ comboIdx = Len(paramCombinations)
    /\ paramSensitivity' = analyzeParamSensitivity(allResults)
    /\ allResults' = SortByScore(allResults)
    /\ pc' = "optimized"
    /\ UNCHANGED <<data, config, paramGrid, paramCombinations, comboIdx, bestScore,
                   bestParams, events>>
    /\ UNCHANGED wfVars
    /\ UNCHANGED btVars

\* the grids of the model: up to two parameters, a and b in either key order
GridValues(name) == IF name = "a" THEN <<1, 2, 3, 4, 5, 6>> ELSE <<10, 20, 30, 40, 50, 60>>
GridEntry(name, n) == [name |-> name, values |-> SubSeq(GridValues(name), 1, n)]
Grids ==
    LET one == {<<GridEntry(name, n)>> : name \in {"a", "b"}, n \in 0..MaxValues}
        two == {<<GridEntry(names[1], n), GridEntry(names[2], m)>> :
                   names \in {<<"a", "b">>, <<"b", "a">>}, n \in 0..MaxValues, m \in 0..MaxValues}
    IN {g \in {<<>>} \cup one \cup two : Len(AllCombinations(g)) <= MaxCombinations}

----------------------------------------------------------------------------
(* AdvancedBacktester.calculateRandomHit3Plus, hypergeometricPMF and        *)
(* combination (part_005 190-223)                                           *)

\* The binomial coefficients of 45 exceed the integers of the model checker.
\* A non-negative integer of this section is the list of its digits to the
\* base 10000, least significant first and without leading zeros (0 is the
\* empty list).
RECURSIVE BigOf(_)
BigOf(x) == IF x = 0 THEN <<>> ELSE <<x % 10000>> \o BigOf(x \div 10000)

RECURSIVE BigToInt(_)
BigToInt(a) == IF a = <<>> THEN 0 ELSE a[1] + 10000 * BigToInt(Tail(a))

RECURSIVE BigMulCarry(_, _, _)
BigMulCarry(a, m, carry) ==
    IF a = <<>> THEN BigOf(carry)
    ELSE <<(a[1] * m + carry) % 10000>>
            \o BigMulCarry(Tail(a), m, (a[1] * m + carry) \div 10000)

\* a * m for a machine integer 0 <= m < 10000
BigMulSmall(a, m) == IF m = 0 THEN <<>> ELSE BigMulCarry(a, m, 0)

RECURSIVE BigAddCarry(_, _, _)
BigAddCarry(a, b, carry) ==
    IF a = <<>> /\ b = <<>> THEN BigOf(carry)
    ELSE LET da == IF a = <<>> THEN 0 ELSE a[1]
             db == IF b = <<>> THEN 0 ELSE b[1]
         IN <<(da + db + carry) % 10000>>
               \o BigAddCarry(IF a = <<>> THEN a ELSE Tail(a),
                              IF b = <<>> THEN b ELSE Tail(b),
                              (da + db + carry) \div 10000)

BigAdd(a, b) == BigAddCarry(a, b, 0)

RECURSIVE BigMul(_, _)
BigMul(a, b) ==
    IF a = <<>> \/ b = <<>> THEN <<>>
    ELSE LET rest == BigMul(a, Tail(b))
         IN BigAdd(BigMulSmall(a, b[1]), IF rest = <<>> THEN <<>> ELSE <<0>> \o rest)

\* a % d for a machine integer 0 < d < 10000
RECURSIVE BigRem(_, _)
BigRem(a, d) == IF a = <<>> THEN 0 ELSE (BigRem(Tail(a), d) * 10000 + a[1]) % d

RECURSIVE BigQuotDigits(_, _)
BigQuotDigits(a, d) ==
    IF a = <<>> THEN <<>>
    ELSE <<(BigRem(Tail(a), d) * 10000 + a[1]) \div d>> \o BigQuotDigits(Tail(a), d)

RECURSIVE BigNormal(_)
BigNormal(a) ==
    IF a = <<>> THEN a
    ELSE IF a[Len(a)] = 0 THEN BigNormal(SubSeq(a, 1, Len(a) - 1)) ELSE a

\* the integer part of a / d
BigDiv(a, d) == BigNormal(BigQuotDigits(a, d))

RECURSIVE BigLess(_, _)
BigLess(a, b) ==
    IF Len(a) # Len(b) THEN Len(a) < Len(b)
    ELSE IF a = <<>> THEN FALSE
    ELSE IF a[Len(a)] # b[Len(b)] THEN a[Len(a)] < b[Len(b)]
    ELSE BigLess(SubSeq(a, 1, Len(a) - 1), SubSeq(b, 1, Len(b) - 1))

\* 2^53 = 9007199254740992: below it every integer is a Number of its own
TwoTo53 == <<992, 5474, 1992, 9007>>

\* the Number an integer-valued computation holds: exact tells that every
\* value so far was an integer below 2^53, so that value is what the code has
Exactly(a) == [value |-> a, exact |-> TRUE]

\* mutant: the loop divides before it multiplies
LoopStep_DivideFirst(result, n, i) ==
    [value |-> BigMulSmall(BigDiv(result.value, i + 1), n - i),
     exact |-> /\ result.exact
               /\ BigRem(result.value, i + 1) = 0
               /\ BigLess(BigMulSmall(BigDiv(result.value, i + 1), n - i), TwoTo53)]

\* result = result * (n - i) / (i + 1) (part_005 219)
LoopStep(result, n, i) ==
    [value |-> BigDiv(BigMulSmall(result.value, n - i), i + 1),
     exact |-> /\ result.exact
               /\ BigLess(BigMulSmall(result.value, n - i), TwoTo53)
               /\ BigRem(BigMulSmall(result.value, n - i), i + 1) = 0]

\* the for loop of combination from step i on (part_005 218-220); a value
\* that is no longer exact is carried to the end as it is
RECURSIVE CombinationLoop(_, _, _, _)
CombinationLoop(n, k, i, result) ==
    IF i >= k \/ ~result.exact THEN result
    ELSE CombinationLoop(n, k, i + 1, LoopStep(result, n, i))

\* combination(n, k) (part_005 213-223)
combination(n, k) ==
    IF k > n \/ k < 0 THEN Exactly(BigOf(0))
    ELSE IF k = 0 \/ k = n THEN Exactly(BigOf(1))
    ELSE CombinationLoop(n, k, 0, Exactly(BigOf(1)))

\* a quotient of two such integers, kept exact
BigFrac(x, y) == [num |-> x, den |-> y]

\* p + q; over the common denominator when there is one
BigFracAdd(p, q) ==
    IF p.den = q.den THEN BigFrac(BigAdd(p.num, q.num), p.den)
    ELSE BigFrac(BigAdd(BigMul(p.num, q.den), BigMul(q.num, p.den)), BigMul(p.den, q.den))

\* p <= q for denominators above 0
BigFracLeq(p, q) == ~BigLess(BigMul(q.num, p.den), BigMul(p.num, q.den))

\* hypergeometricPMF (part_005 206-208)
hypergeometricPMF(k, N, K, n) ==
    BigFrac(BigMul(combination(K, k).value, combination(N - K, n - k).value),
            combination(N, n).value)

\* prob after the loop steps k = from .. Math.min(6, topN) (part_005 197-199)
RECURSIVE RandomHitLoop(_, _, _)
RandomHitLoop(topN, k, prob) ==
    IF k > Min2(DrawSize, topN) THEN prob
    ELSE RandomHitLoop(topN, k + 1,
                       BigFracAdd(prob, hypergeometricPMF(k, UniverseSize, DrawSize, topN)))

\* calculateRandomHit3Plus (part_005 193-201)
calculateRandomHit3Plus(topN) == RandomHitLoop(topN, 3, BigFrac(BigOf(0), BigOf(1)))

\* this.combination(n, k) on its own
Combination ==
    /\ pc = "combination"
    /\ aggregate' = combination(config.n, config.k)
    /\ pc' = "combined"
    /\ UNCHANGED <<data, config, startIdx, folds, foldIdx, predictions, calls, foldResults>>
    /\ UNCHANGED btVars
    /\ UNCHANGED optVars

\* this.calculateRandomHit3Plus(topN) on its own
CalculateRandomHit3Plus ==
    /\ pc = "calculateRandomHit3Plus"
    /\ aggregate' = calculateRandomHit3Plus(config.topN)
    /\ pc' = "baseline"
    /\ UNCHANGED <<data, config, startIdx, folds, foldIdx, predictions, calls, foldResults>>
    /\ UNCHANGED btVars
    /\ UNCHANGED optVars

----------------------------------------------------------------------------
(* calculateMetrics on a result list of its own *)

\* longest result list handed to calculateMetrics on its own
MaxRecords == 6

\* the hits of those records: none, one below the threshold of the drawdown,
\* the threshold, all six
HitLevels == <<0, 2, 3, 6>>

\* a record that carries hits and no rank data
HitsRecord(roundNumber, hits) ==
    [round |-> roundNumber, hits |-> hits, actualRanks |-> <<>>, avgRank |-> Frac(0, 0)]

\* calculateMetrics(results)
CalculateMetrics ==
    /\ pc = "calculateMetrics"
    /\ aggregate' = calculateMetrics(results)
    /\ pc' = "metrics"
    /\ UNCHANGED <<data, config, startIdx, folds, foldIdx, predictions, calls, foldResults>>
    /\ UNCHANGED btVars
    /\ UNCHANGED optVars

----------------------------------------------------------------------------
(* Initial states and specifications *)

Configs(maxTrain, maxTest) ==
    [trainSize : 1..maxTrain, testSize : 1..maxTest, stepSize : -1..MaxStep,
     windowType : {Anchored, Rolling}, minTrainSize : 1..maxTrain + 1]

InitWith(maxLen, maxTrain, maxTest) ==
    /\ data \in {DrawSequence(n) : n \in 0..maxLen}
    /\ config \in Configs(maxTrain, maxTest)
    /\ pc = "generateFolds"
    /\ startIdx = 0
    /\ folds = <<>>
    /\ foldIdx = 0
    /\ predictions = NoPrediction
    /\ calls = <<>>
    /\ foldResults = <<>>
    /\ aggregate = Null
    /\ startRound = 0
    /\ endRound = 0
    /\ round = 0
    /\ results = <<>>
    /\ calibrationData = <<>>
    /\ calibration = Null
    /\ returned = <<>>
    /\ OptimizerIdle

\* the fold generator on its own
InitFolds == InitWith(MaxSeqLen, MaxTrainF, MaxTestF)
NextFolds == GenerateFoldsIter
SpecFolds == InitFolds /\ [][NextFolds]_vars
\* the loop is synchronous code: once entered, it keeps iterating
SpecFoldsFair == SpecFolds /\ WF_vars(NextFolds)

\* a run of Backtester.run or of AdvancedBacktester.runProbabilityBacktest
InitBT ==
    /\ data \in {DrawSequence(n) : n \in 0..MaxRounds}
    /\ config \in {c \in [engine : {BacktesterEngine, AdvancedEngine}, topN : {6, 10},
                             analysis : {DefaultAnalysis, CustomAnalysis},
                             custom : 1..Len(CustomPredictions)] :
                        /\ c.engine = AdvancedEngine => c.analysis = DefaultAnalysis
                        /\ c.analysis = DefaultAnalysis => c.custom = 1}
    /\ startRound \in 1..MaxStartRound
    /\ endRound \in (startRound - 1)..(Len(data) + 1)
    /\ round = startRound
    /\ results = <<>>
    /\ calibrationData = <<>>
    /\ calibration = Null
    /\ returned = <<>>
    /\ pc = "backtest"
    /\ startIdx = 0
    /\ folds = <<>>
    /\ foldIdx = 0
    /\ predictions = NoPrediction
    /\ calls = <<>>
    /\ foldResults = <<>>
    /\ aggregate = Null
    /\ OptimizerIdle
NextBT == BacktesterRound \/ ProbabilityRound \/ ReturnStatistics
SpecBT == InitBT /\ [][NextBT]_vars

\* runs of Backtester.run or of runProbabilityBacktest on one instance, one
\* after the other, with the topN of runOptimization (main.js 3239) and the
\* analyzers of the two classes
InitReuse ==
    /\ InitBT
    /\ Len(data) >= MaxRounds - 1
    /\ config.topN = 10
    /\ config.analysis = DefaultAnalysis
NextReuse == BacktesterRound \/ ProbabilityRound \/ ReturnStatistics \/ RunAgain
SpecReuse == InitReuse /\ [][NextReuse]_vars

\* a whole walk-forward run
Init == InitWith(MaxLen, MaxTrain, MaxTest)
Next == GenerateFoldsIter \/ CallStrategy \/ EvaluateFold \/ CatchError \/ AggregateAndReturn
Spec == Init /\ [][Next]_vars

\* an optimization
InitOpt ==
    /\ data = <<>>
    /\ config \in [metric : Metrics, maxIterations : 0..MaxIterations,
                   progressCallback : BOOLEAN]
    /\ pc = "optimize"
    /\ startIdx = 0
    /\ folds = <<>>
    /\ foldIdx = 0
    /\ predictions = NoPrediction
    /\ calls = <<>>
    /\ foldResults = <<>>
    /\ aggregate = Null
    /\ startRound = 0
    /\ endRound = 0
    /\ round = 0
    /\ results = <<>>
    /\ calibrationData = <<>>
    /\ calibration = Null
    /\ returned = <<>>
    /\ paramGrid \in Grids
    /\ paramCombinations = <<>>
    /\ comboIdx = 0
    /\ allResults = <<>>
    /\ bestScore = NegInfinity
    /\ bestParams = Null
    /\ paramSensitivity = <<>>
    /\ events = <<>>
NextOpt == OptimizeStart \/ OptimizeCombination \/ OptimizeReturn
SpecOpt == InitOpt /\ [][NextOpt]_vars

\* combination and calculateRandomHit3Plus on every argument up to the
\* universe size, combination also one step outside 0..n
InitBaseline ==
    /\ data = <<>>
    /\ \/ /\ pc = "combination"
          /\ config \in {c \in [n : 0..UniverseSize, k : -1..(UniverseSize + 1)] : c.k <= c.n + 1}
       \/ /\ pc = "calculateRandomHit3Plus"
          /\ config \in [topN : 0..UniverseSize]
    /\ startIdx = 0
    /\ folds = <<>>
    /\ foldIdx = 0
    /\ predictions = NoPrediction
    /\ calls = <<>>
    /\ foldResults = <<>>
    /\ aggregate = Null
    /\ startRound = 0
    /\ endRound = 0
    /\ round = 0
    /\ results = <<>>
    /\ calibrationData = <<>>
    /\ calibration = Null
    /\ returned = <<>>
    /\ OptimizerIdle
NextBaseline == Combination \/ CalculateRandomHit3Plus
SpecBaseline == InitBaseline /\ [][NextBaseline]_vars

\* calculateMetrics on every list of up to MaxRecords records
InitMetrics ==
    /\ data = <<>>
    /\ config = Null
    /\ pc = "calculateMetrics"
    /\ results \in UNION {{[i \in 1..n |-> HitsRecord(i, HitLevels[level[i]])] :
                              level \in [1..n -> 1..Len(HitLevels)]} : n \in 0..MaxRecords}
    /\ startIdx = 0
    /\ folds = <<>>
    /\ foldIdx = 0
    /\ predictions = NoPrediction
    /\ calls = <<>>
    /\ foldResults = <<>>
    /\ aggregate = Null
    /\ startRound = 0
    /\ endRound = 0
    /\ round = 0
    /\ calibrationData = <<>>
    /\ calibration = Null
    /\ returned = <<>>
    /\ OptimizerIdle
NextMetrics == CalculateMetrics
SpecMetrics == InitMetrics /\ [][NextMetrics]_vars

\* most rounds of a calibration dataset
MaxCalRounds == 2
\* candidates scored per round of a calibration dataset
MaxCandidates == 2

\* the probabilities of the model's calibration datasets: both ends of the
\* scale, a bin boundary and a value inside a bin
ProbabilityLevels == <<0, 10, 55, 100>>

\* a round of calibration data (part_005 94-98): every candidate with its
\* probability, and the numbers that were drawn.  All candidates carry the
\* same level, or the levels in turn from some level on.
CalibrationRounds ==
    LET levels == Len(ProbabilityLevels)
        same(l) == [i \in 1..MaxCandidates |-> [number |-> i, probability |-> ProbabilityLevels[l]]]
        turn(l) == [i \in 1..MaxCandidates |->
                       [number |-> i,
                        probability |-> ProbabilityLevels[((l + i - 1) % levels) + 1]]]
    IN {[scores |-> scores, actual |-> [j \in 1..drawn |-> j]] :
           scores \in {same(l) : l \in 1..levels} \cup {turn(l) : l \in 1..levels},
           drawn \in 0..MaxCandidates}

\* analyzeCalibration on a dataset of its own
InitCal ==
    /\ data = <<>>
    /\ config = [engine |-> AdvancedEngine]
    /\ pc = "analyzeCalibration"
    /\ startIdx = 0
    /\ folds = <<>>
    /\ foldIdx = 0
    /\ predictions = NoPrediction
    /\ calls = <<>>
    /\ foldResults = <<>>
    /\ aggregate = Null
    /\ startRound = 0
    /\ endRound = 0
    /\ round = 0
    /\ results = <<>>
    /\ calibrationData \in UNION {[1..n -> CalibrationRounds] : n \in 0..MaxCalRounds}
    /\ calibration = Null
    /\ returned = <<>>
    /\ OptimizerIdle
NextCal == AnalyzeCalibration
SpecCal == InitCal /\ [][NextCal]_vars

----------------------------------------------------------------------------
(* Properties of the fold generator *)

\* the 0-based index of a record in the draw sequence (round r sits at r - 1)
IndexOf(rec) == rec.round - 1
IndicesOf(recs) == [i \in 1..Len(recs) |-> IndexOf(recs[i])]

\* the consecutive indices lo..hi as a sequence
Interval(lo, hi) == [i \in 1..(hi - lo + 1) |-> lo + i - 1]

FoldsReturned == pc = "foldsReturned"

\* C1: in every fold the generator has emitted, for either window type and
\* every configuration, every train record precedes every test record, and
\* the test segment starts at the record right after the last train record.
C1_NoLeakage ==
    \A i \in 1..Len(folds) :
        LET f == folds[i] IN
        /\ \A a \in Range(f.trainRounds) : \A b \in Range(f.testRounds) :
               IndexOf(a) < IndexOf(b)
        /\ (f.trainRounds # <<>> /\ f.testRounds # <<>>) =>
               IndexOf(f.testRounds[1]) = IndexOf(f.trainRounds[Len(f.trainRounds)]) + 1

\* C1 witness: an anchored configuration has returned several folds, each
\* with a train and a test segment.
C1_Witness ==
    /\ FoldsReturned
    /\ config.windowType = Anchored
    /\ Len(folds) >= 3
    /\ \A i \in 1..Len(folds) : folds[i].trainRounds # <<>> /\ folds[i].testRounds # <<>>

\* the start indices 0, stepSize, 2*stepSize, ... whose window fits the sequence
FittingStarts(n, cfg) ==
    {s \in 0..n : s % cfg.stepSize = 0 /\ s + cfg.trainSize + cfg.testSize <= n}

\* the folds of the rolling window, in increasing order of start index
ExpectedRollingFolds(n, cfg) ==
    [j \in 1..Cardinality(FittingStarts(n, cfg)) |->
        LET s == (j - 1) * cfg.stepSize IN
        [train |-> Interval(s, s + cfg.trainSize - 1),
         test |-> Interval(s + cfg.trainSize, s + cfg.trainSize + cfg.testSize - 1)]]

FoldIndexRanges ==
    [j \in 1..Len(folds) |->
        [train |-> IndicesOf(folds[j].trainRounds), test |-> IndicesOf(folds[j].testRounds)]]

ExampleConfig ==
    [trainSize |-> 5, testSize |-> 2, stepSize |-> 1, windowType |-> Rolling,
     minTrainSize |-> 5]

\* C9: with the rolling window, stepSize >= 1 and trainSize >= minTrainSize,
\* generateFolds returns exactly the folds (train[s..s+trainSize-1],
\* test[s+trainSize..s+trainSize+testSize-1]) for s = 0, stepSize, ... with
\* s + trainSize + testSize <= sequenceLength, in that order: none when
\* trainSize + testSize > sequenceLength, and the 4 folds of the example.
C9_RollingFoldEnumeration ==
    (/\ FoldsReturned
     /\ config.windowType = Rolling
     /\ config.stepSize >= 1
     /\ config.trainSize >= config.minTrainSize)
    => /\ FoldIndexRanges = ExpectedRollingFolds(Len(data), config)
       /\ (config.trainSize + config.testSize > Len(data)) => folds = <<>>
       /\ (Len(data) = 10 /\ config = ExampleConfig) =>
              FoldIndexRanges =
                  << [train |-> <<0, 1, 2, 3, 4>>, test |-> <<5, 6>>],
                     [train |-> <<1, 2, 3, 4, 5>>, test |-> <<6, 7>>],
                     [train |-> <<2, 3, 4, 5, 6>>, test |-> <<7, 8>>],
                     [train |-> <<3, 4, 5, 6, 7>>, test |-> <<8, 9>>] >>

\* C9 witness: the example (10 records, train 5, test 2, step 1) has returned.
C9_Witness ==
    /\ FoldsReturned
    /\ Len(data) = 10
    /\ config = ExampleConfig
    /\ Len(folds) = 4

\* C10: with the anchored window every fold's train segment starts at index 0
\* and fold i (0-based) has trainSize + i*stepSize train records.
C10_AnchoredTrainFixedStart ==
    (config.windowType = Anchored /\ config.stepSize >= 1) =>
        \A i \in 1..Len(folds) :
            /\ folds[i].trainRounds # <<>>
            /\ IndexOf(folds[i].trainRounds[1]) = 0
            /\ Len(folds[i].trainRounds) = config.trainSize + (i - 1) * config.stepSize

----------------------------------------------------------------------------
(* Properties of a walk-forward run *)

Done == pc = "done"

\* the call made for the fold behind foldResults[i]
CallOf(i) == calls[i]
Threw(i) == CallOf(i).outcome.kind = "throw"
Malformed(i) == CallOf(i).outcome.kind \in {"null", "noPredictions"}

\* strategy calls begun so far: one per finished fold, one for a fold in progress
FoldsStarted == foldIdx + (IF pc \in {"evaluateFold", "catch"} THEN 1 ELSE 0)

\* C3: no argument of a strategy call holds a record of the fold's test
\* segment; the fold's train slice is the only draw data handed over.
C3_StrategySeesOnlyTrainSlice ==
    \A i \in 1..Len(calls) :
        LET c == calls[i]
            fold == folds[c.foldIndex + 1]
        IN /\ c.trainData = fold.trainRounds
           /\ Range(c.trainData) \cap Range(fold.testRounds) = {}
           /\ Range(c.testRounds) \cap Range(fold.testRounds) = {}

\* C4: the strategy is invoked exactly once per fold, before any test round
\* of that fold is scored, and every record of a fold is scored against the
\* prediction of that one call, so calls are counted per fold while records
\* are counted per test round.
C4_OneStrategyCallPerFold ==
    /\ Len(calls) = FoldsStarted
    /\ \A i \in 1..Len(calls) : calls[i].foldIndex = i - 1
    /\ Len(foldResults) <= Len(calls)
    /\ \A i \in 1..Len(foldResults) :
          \A j \in 1..Len(foldResults[i].results) :
              foldResults[i].results[j].predicted =
                  PredictedNumbers(PredictionMap(CallOf(i).outcome))
    /\ \A i \in 1..Len(foldResults) :
          ~Threw(i) => Len(foldResults[i].results) = config.testSize
    /\ Done => Len(calls) = Len(folds)

\* C4 witness: a finished run over several folds of two test rounds each: as
\* many calls as folds, twice as many records.
C4_Witness ==
    /\ Done
    /\ config.testSize = 2
    /\ Len(folds) >= 2
    /\ Len(calls) = Len(folds)
    /\ Len(AllResults(foldResults)) = 2 * Len(folds)
    /\ \A i \in 1..Len(foldResults) : foldResults[i].results[1].predicted # <<>>

\* C5: a throwing strategy does not abort the run: the fold is recorded with
\* no results and the error's message, later folds are still passed to the
\* strategy and evaluated, and the run ends with one entry per fold, in order.
C5_StrategyFailureIsolated ==
    /\ pc # "aborted"
    /\ Len(foldResults) = foldIdx
    /\ \A i \in 1..Len(foldResults) :
          /\ foldResults[i].trainStart = folds[i].trainRounds[1].round
          /\ foldResults[i].testStart = folds[i].testRounds[1].round
          /\ foldResults[i].testEnd = folds[i].testRounds[Len(folds[i].testRounds)].round
          /\ Threw(i) => /\ foldResults[i].results = <<>>
                         /\ foldResults[i].error = CallOf(i).outcome.message
          /\ ~Threw(i) => /\ foldResults[i].results = EvaluatedRecords(folds[i], CallOf(i).outcome)
                          /\ foldResults[i].error = NoError
    /\ Done => Len(foldResults) = Len(folds) /\ Len(calls) = Len(folds)

\* C5 witness: a finished run in which a fold failed and a later fold was
\* evaluated.
C5_Witness ==
    /\ Done
    /\ \E i, j \in 1..Len(foldResults) :
          /\ i < j
          /\ Threw(i)
          /\ foldResults[i].error = "strategy failed"
          /\ ~Threw(j)
          /\ Len(foldResults[j].results) = config.testSize

\* C6: a fold whose strategy returned neither a list nor an object with a
\* predictions list is recorded as failed (no results, an error) and adds no
\* record to the aggregate.
C6_MalformedOutputFailsFold ==
    \A i \in 1..Len(foldResults) :
        Malformed(i) => /\ foldResults[i].results = <<>>
                        /\ foldResults[i].error # NoError

\* a fold is recorded as failed when its entry carries an error
Failed(fr) == fr.error # NoError
SuccessfulRecords(frs) ==
    Flatten([i \in 1..Len(frs) |-> IF Failed(frs[i]) THEN <<>> ELSE frs[i].results])

\* C7: the aggregate of a finished run is calculateMetrics of the records of
\* the folds not recorded as failed, in fold order; failed folds contribute
\* nothing and do not make it null, and each stays in foldResults with its
\* error and its own fold index.
C7_AggregateOverSuccessfulFolds ==
    Done =>
        /\ aggregate = calculateMetrics(SuccessfulRecords(foldResults))
        /\ (\E i \in 1..Len(foldResults) : ~Failed(foldResults[i])) => ~aggregate.isNull
        /\ \A i \in 1..Len(foldResults) :
              Threw(i) => /\ Failed(foldResults[i])
                          /\ foldResults[i].foldIndex = i - 1
                          /\ foldResults[i].error = CallOf(i).outcome.message

\* C7 witness: a finished run with a failed fold between two successful ones
\* and a non-null aggregate over the records of those two.
C7_Witness ==
    /\ Done
    /\ Len(foldResults) >= 3
    /\ ~Failed(foldResults[1]) /\ Failed(foldResults[2]) /\ ~Failed(foldResults[3])
    /\ ~aggregate.isNull
    /\ aggregate.totalRounds = Len(foldResults[1].results) + Len(foldResults[3].results)

\* C8: when no evaluation record reaches the aggregator (an empty or missing
\* list, a sequence too short for a fold, every fold failed) the statistics
\* are null, run does not throw, no fold means no strategy call, and no
\* statistic is a 0/0.
C8_NoMetricsOnNoData ==
    /\ calculateMetricsOf(Given(<<>>)) = Null
    /\ calculateMetricsOf(Missing) = Null
    /\ calculateStatistics(<<>>) = Null
    /\ pc # "aborted"
    /\ NoNaN(aggregate)
    /\ Done => /\ (AllResults(foldResults) = <<>>) = aggregate.isNull
               /\ folds = <<>> => calls = <<>> /\ aggregate = Null
               /\ (\A i \in 1..Len(foldResults) : Failed(foldResults[i])) => aggregate = Null

\* C8 witness: a finished run whose folds all failed, with null statistics.
C8_Witness ==
    /\ Done
    /\ Len(folds) >= 2
    /\ \A i \in 1..Len(foldResults) : Failed(foldResults[i])
    /\ aggregate = Null

----------------------------------------------------------------------------
(* Properties of the per-round backtests *)

\* C2: the prediction scored against round r, r = 1 included, was computed
\* only from draws of rounds before r.
C2_OnlyEarlierRoundsConsulted ==
    \A i \in 1..Len(results) :
        \A q \in results[i].consulted : q < results[i].round

----------------------------------------------------------------------------
(* Step size validation and termination of generateFolds *)

\* C11: with stepSize <= 0 fold generation is rejected as a configuration
\* error: no fold is ever emitted and generateFolds does not return a fold
\* list to run as if the configuration were valid.
C11_InvalidStepRejected ==
    config.stepSize <= 0 => (folds = <<>> /\ pc # "foldsReturned")

----------------------------------------------------------------------------
(* Hit counts of the per-round backtests *)

\* C13: every evaluation record has 0 <= hits <= min(number of predicted
\* candidates, number of actual numbers), whatever the analysis handed back,
\* so hits is one of the hit-distribution buckets 0..6.
C13_HitCountBound ==
    \A i \in 1..Len(results) :
        /\ 0 <= results[i].hits
        /\ results[i].hits <= Min2(Len(results[i].predicted), Len(results[i].actual))
        /\ results[i].hits \in 0..DrawSize

----------------------------------------------------------------------------
(* Properties of the grid search *)

Optimized == pc = "optimized"

\* the product of the lengths of the grid's value lists
RECURSIVE ProductOfLengths(_)
ProductOfLengths(grid) ==
    IF grid = <<>> THEN 1 ELSE Len(grid[1].values) * ProductOfLengths(Tail(grid))

\* the Cartesian product of the grid as a set of params objects, whatever the
\* order of the keys
ProductSet(grid) ==
    LET names == {grid[i].name : i \in 1..Len(grid)}
        valuesOf(name) == Range(grid[CHOOSE i \in 1..Len(grid) : grid[i].name = name].values)
        allValues == UNION {valuesOf(name) : name \in names}
    IN {params \in [names -> allValues] : \A name \in names : params[name] \in valuesOf(name)}

\* the params handed to backtestFunction, call by call
Evaluated == [i \in 1..Len(SelectSeq(events, LAMBDA e : e.type = "backtestFunction")) |->
                 SelectSeq(events, LAMBDA e : e.type = "backtestFunction")[i].params]

\* config.maxIterations does not cut the grid
NotSampled ==
    config.maxIterations = 0 \/ ProductOfLengths(paramGrid) <= config.maxIterations

EvaluatesWholeProduct ==
    /\ Len(Evaluated) = ProductOfLengths(paramGrid)
    /\ Len(allResults) = ProductOfLengths(paramGrid)
    /\ Range(Evaluated) = ProductSet(paramGrid)
    /\ {allResults[i].params : i \in 1..Len(allResults)} = ProductSet(paramGrid)
    /\ \A i, j \in 1..Len(Evaluated) : Evaluated[i] = Evaluated[j] => i = j

\* C14 as stated: optimize calls the backtest function exactly once for each
\* element of the Cartesian product of the grid and for nothing else, so the
\* evaluations and allResults are as many as the product of the list lengths
\* and the params in allResults are exactly the product.
C14_GridSearchComplete == Optimized => EvaluatesWholeProduct

\* C14 amended: the same, for an optimization whose maxIterations is unset
\* (null or 0) or not below the number of combinations; otherwise exactly
\* maxIterations different combinations of the product are evaluated.
C14_GridSearchCompleteUnlessSampled ==
    Optimized =>
        IF NotSampled THEN EvaluatesWholeProduct
        ELSE /\ Len(Evaluated) = config.maxIterations
             /\ Len(allResults) = config.maxIterations
             /\ Range(Evaluated) \subseteq ProductSet(paramGrid)
             /\ {allResults[i].params : i \in 1..Len(allResults)} = Range(Evaluated)
             /\ \A i, j \in 1..Len(Evaluated) : Evaluated[i] = Evaluated[j] => i = j

ExampleGrid == <<[name |-> "a", values |-> <<1, 2>>], [name |-> "b", values |-> <<10, 20>>]>>

C14_Witness ==
    /\ Optimized
    /\ paramGrid = ExampleGrid
    /\ config.maxIterations = 0
    /\ Range(Evaluated) = {[a |-> 1, b |-> 10], [a |-> 1, b |-> 20],
                           [a |-> 2, b |-> 10], [a |-> 2, b |-> 20]}
    /\ Len(allResults) = 4

\* the results of the combinations whose evaluation succeeded
Succeeded == {i \in 1..Len(allResults) : allResults[i].error = NoError}

\* the succeeded results that attain bestScore
Attaining == {i \in Succeeded : allResults[i].score = bestScore}

\* bestScore is the maximum score of the succeeded combinations and
\* bestParams is one that attains it; with no success they keep null, -Infinity
BestIsMaximum ==
    IF Succeeded = {}
    THEN bestParams = Null /\ bestScore = NegInfinity
    ELSE /\ \A i \in Succeeded : ~GreaterThan(allResults[i].score, bestScore)
         /\ \E i \in Attaining : allResults[i].params = bestParams

\* p comes before q in the enumeration of the product with the first key of
\* the grid varying slowest
CartesianBefore(p, q, grid) ==
    LET pos(k, params) == CHOOSE i \in 1..Len(grid[k].values) :
                             grid[k].values[i] = params[grid[k].name]
    IN \E k \in 1..Len(grid) :
          /\ \A j \in 1..(k - 1) : p[grid[j].name] = q[grid[j].name]
          /\ pos(k, p) < pos(k, q)

\* p was handed to the backtest function before q
EvaluatedBefore(p, q) ==
    \E i, j \in 1..Len(Evaluated) : i < j /\ Evaluated[i] = p /\ Evaluated[j] = q

\* C15 as stated: after optimize bestScore is the maximum score of the
\* succeeded combinations and bestParams is the earliest combination in
\* Cartesian-product order that attains it.
C15_BestIsFirstMaximum ==
    Optimized =>
        /\ BestIsMaximum
        /\ \A i \in Attaining : ~CartesianBefore(allResults[i].params, bestParams, paramGrid)

\* C15 amended: bestScore is that maximum and bestParams is the earliest
\* evaluated combination that attains it; the order of evaluation is the
\* Cartesian-product order when maxIterations does not cut the grid.
C15_BestIsFirstEvaluatedMaximum ==
    Optimized =>
        /\ BestIsMaximum
        /\ \A i \in Attaining : ~EvaluatedBefore(allResults[i].params, bestParams)
        /\ NotSampled =>
              \A i \in Attaining : ~CartesianBefore(allResults[i].params, bestParams, paramGrid)

\* a later combination tied the best score of an earlier one
C15_Witness ==
    /\ Optimized
    /\ NotSampled
    /\ Cardinality(Attaining) >= 2
    /\ \E i \in Succeeded : allResults[i].score # bestScore
    /\ \E i \in Attaining : CartesianBefore(bestParams, allResults[i].params, paramGrid)

Failures == {i \in 1..Len(allResults) : allResults[i].error # NoError}

\* C16: a combination whose backtest throws is recorded with score -Infinity
\* and the error message and is never bestParams; optimize goes on with the
\* remaining combinations and returns normally, every combination recorded;
\* when all of them fail bestParams is null and bestScore -Infinity.
C16_CombinationFailureIsolated ==
    /\ pc # "thrown"
    /\ comboIdx = Len(Evaluated)
    /\ \A i \in Failures : /\ allResults[i].score = NegInfinity
                            /\ allResults[i].error \in {o.message : o \in BacktestOutcomes}
                            /\ allResults[i].error # ""
                            /\ allResults[i].params # bestParams
    /\ Optimized => /\ Len(allResults) = Len(paramCombinations)
                    /\ Evaluated = paramCombinations
                    /\ Succeeded = {} => bestParams = Null /\ bestScore = NegInfinity

\* the first combination failed, a later one became the best
C16_Witness ==
    /\ Optimized
    /\ Len(Evaluated) >= 3
    /\ \E i \in Failures : allResults[i].params = Evaluated[1]
    /\ bestParams # Null

\* every combination failed
C16_WitnessAllFail ==
    Optimized /\ Len(Evaluated) >= 2 /\ Succeeded = {} /\ bestParams = Null

\* the values the grid lists for a parameter
GridValuesOf(name) ==
    Range(paramGrid[CHOOSE i \in 1..Len(paramGrid) : paramGrid[i].name = name].values)

\* the product of the lengths of the other parameters' value lists
OthersProduct(name) ==
    ProductOfLengths(SelectSeq(paramGrid, LAMBDA entry : entry.name # name))

\* the results recorded with value v of parameter name: all, and those
\* without error
WithValue(name, v) == {i \in 1..Len(allResults) : allResults[i].params[name] = v}
SucceededWithValue(name, v) == WithValue(name, v) \cap Succeeded

RECURSIVE SumOfScores(_)
SumOfScores(I) ==
    IF I = {} THEN 0
    ELSE LET i == CHOOSE i \in I : TRUE
         IN allResults[i].score.val + SumOfScores(I \ {i})

\* the sensitivity entry of a parameter names a value of highest mean as
\* bestValue and the highest minus the lowest mean as range
BestValueAndRange(name) ==
    LET entry == paramSensitivity[name]
        keys == DOMAIN entry.valueScores
    IN /\ entry.bestValue \in keys
       /\ \A key \in keys : ~FracLess(entry.valueScores[entry.bestValue].mean,
                                        entry.valueScores[key].mean)
       /\ \E lo \in keys :
             /\ \A key \in keys : ~FracLess(entry.valueScores[key].mean,
                                             entry.valueScores[lo].mean)
             /\ LET hiMean == entry.valueScores[entry.bestValue].mean
                    loMean == entry.valueScores[lo].mean
                IN entry.range.num * hiMean.den * loMean.den
                     = entry.range.den * (hiMean.num * loMean.den - loMean.num * hiMean.den)

\* C17 as stated: for every parameter p and every value v of p,
\* valueScores[v] has count = the number of evaluated combinations with p = v
\* (the product of the other parameters' list lengths) and mean = the sum of
\* their scores over that count; bestValue has the highest mean and range is
\* the highest minus the lowest mean.
C17_SensitivityMarginalizes ==
    (Optimized /\ allResults # <<>>) =>
        \A i \in 1..Len(paramGrid) :
            LET name == paramGrid[i].name IN
            /\ name \in DOMAIN paramSensitivity
            /\ \A v \in GridValuesOf(name) :
                  /\ ToString(v) \in DOMAIN paramSensitivity[name].valueScores
                  /\ LET vs == paramSensitivity[name].valueScores[ToString(v)] IN
                     /\ vs.count = Cardinality(WithValue(name, v))
                     /\ vs.count = OthersProduct(name)
                     /\ vs.mean.num * vs.count = SumOfScores(SucceededWithValue(name, v)) * vs.mean.den
            /\ BestValueAndRange(name)

\* C17 amended: valueScores has an entry (under the value as a string) for
\* exactly the values with at least one combination recorded without error;
\* its count is the number of those combinations, which is the product of the
\* other lists' lengths when nothing failed and maxIterations did not cut the
\* grid, and its mean their score sum over the count; a parameter without
\* such a value has no sensitivity entry; bestValue and range as stated.
C17_SensitivityOverSucceeded ==
    (Optimized /\ allResults # <<>>) =>
        \A i \in 1..Len(paramGrid) :
            LET name == paramGrid[i].name
                seen == {v \in GridValuesOf(name) : SucceededWithValue(name, v) # {}}
            IN IF seen = {} THEN name \notin DOMAIN paramSensitivity
               ELSE /\ name \in DOMAIN paramSensitivity
                    /\ DOMAIN paramSensitivity[name].valueScores = {ToString(v) : v \in seen}
                    /\ \A v \in seen :
                          LET vs == paramSensitivity[name].valueScores[ToString(v)] IN
                          /\ vs.count = Cardinality(SucceededWithValue(name, v))
                          /\ (Failures = {} /\ NotSampled) => vs.count = OthersProduct(name)
                          /\ vs.mean.num * vs.count
                               = SumOfScores(SucceededWithValue(name, v)) * vs.mean.den
                    /\ BestValueAndRange(name)

\* the 2 x 2 grid with four succeeded combinations of different means
C17_Witness ==
    /\ Optimized
    /\ paramGrid = ExampleGrid
    /\ Failures = {}
    /\ Len(allResults) = 4
    /\ paramSensitivity["a"].valueScores["1"].count = 2
    /\ paramSensitivity["a"].range.num > 0

\* C20: progressCallback is called once per combination, after that
\* combination's evaluation, with current = the number of combinations
\* completed so far; so the reported count never exceeds the number of
\* finished evaluations, and at current = total every one has been evaluated.
C20_ProgressAfterEvaluation ==
    config.progressCallback =>
        /\ \A k \in 1..Len(events) :
              events[k].type = "progressCallback" =>
                  events[k].current
                    <= Cardinality({j \in 1..(k - 1) : events[j].type = "backtestFunction"})
        /\ Optimized =>
              Cardinality({k \in 1..Len(events) : events[k].type = "progressCallback"})
                = Len(paramCombinations)

----------------------------------------------------------------------------
(* Lift against the random baseline *)

\* the probability that n numbers picked out of N contain at least k of the
\* K drawn ones: the sum of hypergeometricPMF(j, N, K, n) for j = k..min(K, n)
HypergeometricAtLeast(k, N, K, n) ==
    LET top == Min2(K, n)
        terms == [j \in 1..(top - k + 1) |->
                     BigToInt(hypergeometricPMF(k + j - 1, N, K, n).num)]
    IN Reduce(Frac(SumSeq(terms), BigToInt(combination(N, n).value)))

\* the evaluation records behind the aggregate
AggregatedRecords == AllResults(foldResults)

\* C18: the lift@k of the aggregate is hitRate@k divided by the
\* hypergeometric probability of at least k hits for the prediction size the
\* records used (so it is 1 when the hit rate equals that probability), and
\* null when that baseline is 0.
C18_LiftAgainstHypergeometric ==
    (Done /\ ~aggregate.isNull) =>
        \A n \in 0..DrawSize :
            (\A i \in 1..Len(AggregatedRecords) : Len(AggregatedRecords[i].predicted) = n) =>
                \A k \in 3..6 :
                    LET baseline == HypergeometricAtLeast(k, UniverseSize, DrawSize, n)
                    IN aggregate.lifts[k] = IF baseline.num = 0 THEN Null
                                            ELSE FracDiv(aggregate.hitRates[k], baseline)

----------------------------------------------------------------------------
(* Calibration *)

Calibrated == pc = "calibrated"

\* the candidate-round pairs of the dataset: every candidate of every round
CandidateRoundPairs ==
    {<<r, j>> : r \in 1..Len(calibrationData), j \in 1..MaxCandidates}

RECURSIVE SquaredErrorSum(_)
SquaredErrorSum(pairs) ==
    IF pairs = {} THEN 0
    ELSE LET pair == CHOOSE x \in pairs : TRUE
             score == calibrationData[pair[1]].scores[pair[2]]
             appeared == IF score.number \in Range(calibrationData[pair[1]].actual)
                         THEN 100 ELSE 0
         IN (score.probability - appeared) * (score.probability - appeared)
              + SquaredErrorSum(pairs \ {pair})

\* C19: for a non-empty calibration dataset with probabilities in [0, 100],
\* ece lies in [0, 100] and brierScore in [0, 1]; the Brier score is the mean
\* of (probability/100 - appeared)^2 over every candidate-round pair, and the
\* weights of the non-empty bins sum to 1.
C19_CalibrationBounds ==
    (Calibrated /\ calibrationData # <<>>) =>
        /\ 0 <= calibration.ece.num /\ calibration.ece.den > 0
        /\ calibration.ece.num <= 100 * calibration.ece.den
        /\ 0 <= calibration.brierScore.num /\ calibration.brierScore.den > 0
        /\ calibration.brierScore.num <= calibration.brierScore.den
        /\ calibration.brierScore.num * (100 * 100 * Cardinality(CandidateRoundPairs))
             = SquaredErrorSum(CandidateRoundPairs) * calibration.brierScore.den
        /\ calibration.totalPredictions = Cardinality(CandidateRoundPairs)
        /\ FracSum([i \in 1..NumBins |->
                       Reduce(Frac(calibration.bins[i - 1].totalPredictions,
                                   calibration.totalPredictions))]) = Frac(1, 1)

\* both bounds are attained: every probability 100 and nothing drawn
C19_Witness ==
    /\ Calibrated
    /\ Len(calibrationData) = MaxCalRounds
    /\ calibration.ece = Frac(100, 1)
    /\ calibration.brierScore = Frac(1, 1)
----------------------------------------------------------------------------
(* The draw sequence as a shared resource *)

\* C21: no step of a run changes the draw sequence: the same records in the
\* same order, and the numbers list of every record in the same order.
C21_DrawSequenceReadOnly == [][data' = data]_vars

----------------------------------------------------------------------------
(* Hits and ranks of the walk-forward evaluation records *)

\* the candidates of a strategy output, best first: the list as returned, or
\* the numbers of the predictions entries (which the model's outputs list in
\* rank order)
RankedCandidates(p) ==
    IF p.kind = "array" THEN p.list
    ELSE IF p.kind = "object" THEN [i \in 1..Len(p.entries) |-> p.entries[i].number]
    ELSE <<>>

\* the sizes N of a top-N evaluation
TopNChoices == {6, 10}

\* |topN(RankedCandidates) \cap actualPrimaryNumbers|
TopNHits(p, actual, N) ==
    Cardinality(Range(Slice(RankedCandidates(p), 0, N)) \cap Range(actual))

\* the evaluation records of the folds, each with the output it was scored
\* against
ScoredRecords ==
    UNION {{[record |-> foldResults[i].results[j], outcome |-> CallOf(i).outcome] :
               j \in 1..Len(foldResults[i].results)} : i \in 1..Len(foldResults)}

\* the strategy handed back a ranking of all 45 numbers
FullRanking(p) == p.kind = "object" /\ Len(p.entries) = UniverseSize

\* C22: the hits of a record produced by evaluateFold is the number of actual
\* numbers among the N best-ranked candidates of the strategy output, not
\* among all candidates returned; a full ranking of the 45 numbers does not
\* give 6 hits in every test round.
C22_HitsOnTopN ==
    \A s \in ScoredRecords :
        /\ \A N \in TopNChoices : s.record.hits = TopNHits(s.outcome, s.record.actual, N)
        /\ FullRanking(s.outcome) => s.record.hits < DrawSize

\* the 1-based position of a number among the ranked candidates
PositionOf(candidates, num) ==
    MinOfSet({k \in 1..Len(candidates) : candidates[k] = num})

\* actualRanks as the rule gives them: the position of each actual number, or
\* the sentinel when the prediction does not name it
ExpectedRanks(p, actual) ==
    [i \in 1..Len(actual) |->
        IF actual[i] \in Range(RankedCandidates(p))
        THEN PositionOf(RankedCandidates(p), actual[i])
        ELSE SentinelRank]

\* C23: in every evaluation record actualRanks[i] is the 1-based position of
\* the i-th actual number among the strategy's ranked candidates when it is
\* among them, and the sentinel 999 (larger than the universe size) exactly
\* when it is absent, for a plain list as for an object of predictions
\* entries; avgRank is the mean of actualRanks.
C23_ActualRanks ==
    /\ SentinelRank > UniverseSize
    /\ \A s \in ScoredRecords :
          /\ s.record.actualRanks = ExpectedRanks(s.outcome, s.record.actual)
          /\ s.record.avgRank = Frac(SumSeq(s.record.actualRanks), Len(s.record.actualRanks))

----------------------------------------------------------------------------
(* The random baseline *)

\* the row after a row of Pascal's triangle
PascalNext(row) ==
    SubSeq([j \in 1..(Len(row) + 1) |->
               BigAdd(IF j = 1 THEN BigOf(0) ELSE row[j - 1],
                      IF j > Len(row) THEN BigOf(0) ELSE row[j])],
           1, Len(row) + 1)

RECURSIVE PascalRow(_, _)
PascalRow(n, row) == IF Len(row) > n THEN row ELSE PascalRow(n, PascalNext(row))

\* the binomial coefficient of 0 <= r <= n
Binomial(n, r) == PascalRow(n, <<BigOf(1)>>)[r + 1]

\* the sum of combination(6, k) * combination(39, topN - k) for k = from..min(6, topN)
RECURSIVE ProductSum(_, _, _)
ProductSum(topN, k, sum) ==
    IF k > Min2(DrawSize, topN) THEN sum
    ELSE ProductSum(topN, k + 1,
                    BigAdd(sum, BigMul(combination(DrawSize, k).value,
                                       combination(UniverseSize - DrawSize, topN - k).value)))

\* C24: combination(n, r) is the binomial coefficient for 0 <= r <= n <= 45,
\* every intermediate value of its loop an exact integer, and 0 for r > n or
\* r < 0; the sum over k = 0..min(6, topN) of combination(6, k) *
\* combination(39, topN - k) is combination(45, topN) for topN in 1..45; so
\* calculateRandomHit3Plus(topN), the sum of hypergeometricPMF(k, 45, 6, topN)
\* for k = 3..min(6, topN), lies in [0, 1], is 0 for topN < 3 and does not
\* decrease as topN grows.
C24_RandomBaselineIsDistribution ==
    /\ pc = "combined" =>
          IF config.k > config.n \/ config.k < 0
          THEN aggregate = Exactly(BigOf(0))
          ELSE aggregate = Exactly(Binomial(config.n, config.k))
    /\ (pc = "baseline" /\ config.topN >= 1) =>
          LET topN == config.topN
              total == combination(UniverseSize, topN).value
          IN /\ ProductSum(topN, 0, BigOf(0)) = total
             /\ BigMul(aggregate.num, total) = BigMul(ProductSum(topN, 3, BigOf(0)), aggregate.den)
             /\ aggregate.den # BigOf(0)
             /\ ~BigLess(aggregate.den, aggregate.num)
             /\ topN < 3 => aggregate.num = BigOf(0)
             /\ BigFracLeq(calculateRandomHit3Plus(topN - 1), aggregate)

\* the baseline of the top 10: 360094878 / 3190187286 = 199 / 1763 (0.1129)
C24_Witness ==
    /\ pc = "baseline"
    /\ config.topN = 10
    /\ aggregate.den = <<7286, 9018, 31>>
    /\ BigMulSmall(aggregate.num, 1763) = BigMulSmall(aggregate.den, 199)

----------------------------------------------------------------------------
(* Drawdown *)

\* the hits of the records handed to calculateMetrics, in input order
HitsOf(rs) == [i \in 1..Len(rs) |-> rs[i].hits]

\* the lengths of the runs of consecutive entries below 3
LosingRunLengths(hits) ==
    {j - i + 1 : <<i, j>> \in {r \in (1..Len(hits)) \X (1..Len(hits)) :
                                  r[1] <= r[2] /\ \A x \in r[1]..r[2] : hits[x] < 3}}

LongestLosingRun(hits) == MaxOfSet(LosingRunLengths(hits) \cup {0})

\* C25: for every non-empty list of records the drawdown of calculateMetrics
\* is the length of the longest run of consecutive records, in input order,
\* with fewer than 3 hits: 0 exactly when every record has at least 3 hits,
\* the number of records exactly when none has, and a record with 3 or more
\* hits ends the run (the drawdown is then the longer of the drawdowns
\* before and after that record).
C25_DrawdownIsLongestLosingStreak ==
    (pc = "metrics" /\ results # <<>>) =>
        LET hits == HitsOf(results) IN
        /\ aggregate.drawdown = LongestLosingRun(hits)
        /\ (aggregate.drawdown = 0) = (\A i \in 1..Len(hits) : hits[i] >= 3)
        /\ (aggregate.drawdown = Len(hits)) = (\A i \in 1..Len(hits) : hits[i] < 3)
        /\ \A i \in 1..Len(hits) :
              hits[i] >= 3 =>
                  aggregate.drawdown =
                      Max2(LongestLosingRun(SubSeq(hits, 1, i - 1)),
                           LongestLosingRun(SubSeq(hits, i + 1, Len(hits))))

\* two losing runs of lengths 2 and 3 with a record of 3 hits between them
C25_Witness ==
    /\ pc = "metrics"
    /\ HitsOf(results) = <<2, 0, 3, 0, 2, 0>>
    /\ aggregate.drawdown = 3

----------------------------------------------------------------------------
(* Shape of the folds *)

\* the start index generateFolds had when it emitted the i-th fold
StartIdxOf(i) == (i - 1) * config.stepSize

\* the records of the draw sequence at the indices lo..hi
RecordsAt(lo, hi) == [j \in 1..(hi - lo + 1) |-> data[lo + j]]

\* C26: every fold emitted, for either window type, has all its train and
\* test indices within [0, sequenceLength - 1], a train segment of exactly
\* trainSize consecutive records and a test segment of exactly testSize
\* consecutive records; no fold at all is emitted when trainSize <
\* minTrainSize; consecutive folds start exactly stepSize records apart.
C26_FoldShape ==
    /\ config.trainSize < config.minTrainSize => folds = <<>>
    /\ \A i \in 1..Len(folds) :
          LET trainStartIdx == TrainStartIdx(StartIdxOf(i), config)
              trainEndIdx == TrainEndIdx(StartIdxOf(i), config)
              testStartIdx == TestStartIdx(trainEndIdx)
              testEndIdx == TestEndIdx(testStartIdx, config)
          IN /\ 0 <= trainStartIdx
             /\ testEndIdx <= Len(data) - 1
             /\ Len(folds[i].trainRounds) = config.trainSize
             /\ Len(folds[i].testRounds) = config.testSize
             /\ folds[i].trainRounds = RecordsAt(trainStartIdx, trainEndIdx)
             /\ folds[i].testRounds = RecordsAt(testStartIdx, testEndIdx)
    /\ \A i \in 1..(Len(folds) - 1) :
          (folds[i].trainRounds # <<>> /\ folds[i + 1].trainRounds # <<>>) =>
              IndexOf(folds[i + 1].trainRounds[1]) - IndexOf(folds[i].trainRounds[1])
                  = config.stepSize

----------------------------------------------------------------------------
(* Identity of the folds in the results *)

\* C27: every entry of foldResults, of a successful fold as of a failed one,
\* carries the zero-based position of its fold in the generated fold
\* sequence as its foldIndex, so no two folds share a foldIndex.
C27_FoldIndexIsPosition ==
    /\ \A i \in 1..Len(foldResults) : foldResults[i].foldIndex = i - 1
    /\ \A i, j \in 1..Len(foldResults) :
          foldResults[i].foldIndex = foldResults[j].foldIndex => i = j

----------------------------------------------------------------------------
(* The returned ranking of the combinations *)

\* the position of a combination in the order of evaluation
EvaluationIndex(params) == CHOOSE i \in 1..Len(Evaluated) : Evaluated[i] = params

\* C28: the allResults that optimize returns is in order of non-increasing
\* score, every failed combination behind every succeeded one and
\* combinations of equal score in the order of their enumeration; when a
\* combination succeeded the first entry has bestParams as its params and
\* bestScore as its score.
C28_RankingAgreesWithBest ==
    Optimized =>
        /\ Len(allResults) = Len(Evaluated)
        /\ {allResults[i].params : i \in 1..Len(allResults)} = Range(Evaluated)
        /\ \A i, j \in 1..Len(allResults) :
              i < j =>
                 /\ ~GreaterThan(allResults[j].score, allResults[i].score)
                 /\ i \in Failures => j \in Failures
                 /\ allResults[i].score = allResults[j].score =>
                       EvaluationIndex(allResults[i].params)
                           < EvaluationIndex(allResults[j].params)
        /\ Succeeded # {} =>
              /\ allResults[1].params = bestParams
              /\ allResults[1].score = bestScore

\* the first combination failed, a later one beat an earlier one and two
\* combinations tied the best score
C28_Witness ==
    /\ Optimized
    /\ Cardinality(Attaining) >= 2
    /\ \E i \in Succeeded : allResults[i].score # bestScore
    /\ Evaluated[1] # allResults[1].params
    /\ \E i \in Failures : allResults[i].params = Evaluated[1]
    /\ allResults[1].params = bestParams
    /\ \E i, j \in Succeeded :
          /\ GreaterThan(allResults[i].score, allResults[j].score)
          /\ EvaluationIndex(allResults[j].params) < EvaluationIndex(allResults[i].params)

----------------------------------------------------------------------------
(* Runs on a reused backtester *)

\* the rounds of [startRound, endRound] that exist in the data
RoundsOfRun == {r \in startRound..endRound : HasRound(data, r)}

\* this.results holds records of the running run only, in ascending round
\* order, and after the run exactly one for each round of RoundsOfRun;
\* this.calibrationData goes with it
LatestRunOnly ==
    /\ \A i \in 1..Len(results) : results[i].round \in RoundsOfRun
    /\ \A i, j \in 1..Len(results) : i < j => results[i].round < results[j].round
    /\ pc = "done" => RoundsOf(results) = RoundsOfRun
    /\ config.engine = AdvancedEngine => RoundsOf(calibrationData) = RoundsOf(results)
    /\ config.engine = BacktesterEngine => calibrationData = <<>>

\* a step leaves the result lists of the earlier runs as they were returned
EarlierListsKept ==
    \A k \in 1..Len(returned) : k <= Len(returned') /\ returned'[k] = returned[k]

\* C29: Backtester.run and runProbabilityBacktest clear their result lists
\* and calibration data at the start of every run, so after any sequence of
\* runs on one instance the returned results hold the latest run's records
\* only, exactly one per round of [startRound, endRound] that exists in the
\* data, in ascending round order, and the result list an earlier run
\* returned is not changed by a later run.
C29_RunsIndependent == [][LatestRunOnly' /\ EarlierListsKept]_vars

----------------------------------------------------------------------------
(* Record count of a walk-forward run *)

\* the folds whose strategy call and evaluation succeeded
SuccessfulFolds == {i \in 1..Len(foldResults) : foldResults[i].error = NoError}

\* the successful folds whose test segment holds round r
FoldsTesting(r) ==
    {i \in SuccessfulFolds : \E j \in 1..Len(folds[i].testRounds) :
                                folds[i].testRounds[j].round = r}

\* C30: the aggregate of run is computed over exactly testSize records per
\* successful fold, totalRounds = testSize * (number of successful folds);
\* the test windows are not deduplicated, so a round of several folds' test
\* segments is counted once per such fold.
C30_RecordCount ==
    pc = "done" =>
        /\ \A i \in SuccessfulFolds : Len(foldResults[i].results) = config.testSize
        /\ Len(AllResults(foldResults)) = config.testSize * Cardinality(SuccessfulFolds)
        /\ aggregate # Null =>
              aggregate.totalRounds = config.testSize * Cardinality(SuccessfulFolds)
        /\ aggregate = Null => SuccessfulFolds = {}
        /\ \A r \in RoundsOf(data) :
              CountIf(AllResults(foldResults), LAMBDA rec : rec.round = r)
                  = Cardinality(FoldsTesting(r))

\* two folds succeeded and one failed, with a step smaller than the test
\* window: a round was tested by two folds and is counted twice
C30_Witness ==
    /\ pc = "done"
    /\ 1 <= config.stepSize /\ config.stepSize < config.testSize
    /\ Cardinality(SuccessfulFolds) >= 2
    /\ \E i \in 1..Len(foldResults) : foldResults[i].error # NoError
    /\ \E r \in RoundsOf(data) : Cardinality(FoldsTesting(r)) >= 2
    /\ aggregate # Null
    /\ aggregate.totalRounds = config.testSize * Cardinality(SuccessfulFolds)
    /\ aggregate.totalRounds > Cardinality(RoundsOf(AllResults(foldResults)))
====
